---- MODULE Spec2Model ----
(***************************************************************************)
(* Notification targeting and link writing of the DomusGest backend        *)
(* (server.js, kept as src/unnamed/part_001): the permission model, the    *)
(* admin / user link writers and the request handlers that create          *)
(* notifications.  The SQLite tables are sequences of rows in rowid order. *)
(***************************************************************************)
EXTENDS Integers, Sequences, FiniteSets, TLC

(***************************************************************************)
(* Bounds of the model.                                                    *)
(***************************************************************************)
NAdmins == 2
NCondos == 2
NUsers == 1
MaxCalls == 2
MaxRequests == 2

AdminIds == 1..NAdmins
Condos == 1..NCondos
Users == 1..NUsers

(***************************************************************************)
(* JavaScript values.  A string is kept by what the two conversions the    *)
(* code applies to it return: JSON.parse (field json, JBad when it throws) *)
(* and Number (field num), plus whether it is the empty string.            *)
(***************************************************************************)
JNull == [t |-> "null"]
JUndef == [t |-> "undef"]
JNaN == [t |-> "nan"]
JBad == [t |-> "bad"]
JNum(k) == [t |-> "num", n |-> k]
JArr(s) == [t |-> "arr", a |-> s]
JObj(sc, al) == [t |-> "obj", scope |-> sc, allowed |-> al]
\* the text JSON.stringify(j): parses back to j; Number() of it is j for a number
StrJson(j) == [t |-> "str", empty |-> FALSE, json |-> j,
               num |-> IF j.t = "num" THEN j ELSE JNaN]
\* a non-empty string that is not JSON, e.g. "{bad" or "abc"
StrRaw == [t |-> "str", empty |-> FALSE, json |-> JBad, num |-> JNaN]
\* the empty string
StrEmpty == [t |-> "str", empty |-> TRUE, json |-> JBad, num |-> JNum(0)]

\* JavaScript truthiness (!x is ~Truthy(x))
Truthy(x) ==
  CASE x.t = "null" -> FALSE
    [] x.t = "undef" -> FALSE
    [] x.t = "nan" -> FALSE
    [] x.t = "num" -> x.n # 0
    [] x.t = "str" -> ~x.empty
    [] OTHER -> TRUE

\* Number(x) for the scalars of the model
ToNumber(x) ==
  CASE x.t = "num" -> x
    [] x.t = "null" -> JNum(0)
    [] x.t = "str" -> x.num
    [] OTHER -> JNaN

\* arr.map(x => Number(x))
RECURSIVE MapNumber(_)
MapNumber(s) ==
  IF s = <<>> THEN <<>> ELSE <<ToNumber(Head(s))>> \o MapNumber(Tail(s))

\* arr.filter(n => !Number.isNaN(n)), the numbers unwrapped to integers
RECURSIVE FilterNotNaN(_)
FilterNotNaN(s) ==
  IF s = <<>> THEN <<>>
  ELSE IF Head(s).t = "nan" THEN FilterNotNaN(Tail(s))
       ELSE <<Head(s).n>> \o FilterNotNaN(Tail(s))

\* Array.prototype.includes
Includes(s, x) == \E i \in 1..Len(s) : s[i] = x

\* The elements of a sequence, and a set as a sequence in increasing order
Range(s) == {s[i] : i \in 1..Len(s)}
RECURSIVE SortedSeq(_)
SortedSeq(S) ==
  IF S = {} THEN <<>>
  ELSE LET m == CHOOSE x \in S : \A y \in S : x <= y
       IN <<m>> \o SortedSeq(S \ {m})

(***************************************************************************)
(* Permission model.                                                       *)
(***************************************************************************)
\* function normalizeAllowedCondominiums(raw): a sequence of integers
normalizeAllowedCondominiums(raw) ==
  IF ~Truthy(raw) THEN <<>>
  ELSE LET parsed == IF raw.t = "str"
                     THEN (IF raw.json = JBad THEN JArr(<<raw>>) ELSE raw.json)
                     ELSE raw
           arr == IF parsed.t = "arr" THEN parsed.a ELSE <<parsed>>
       IN FilterNotNaN(MapNumber(arr))

\* variant: a request without the header gets no access
getAdminAllowedCondos_absentClosed(hdr) ==
  IF ~Truthy(hdr) THEN JArr(<<>>)
  ELSE LET parsed == IF hdr.t = "str" THEN hdr.json ELSE hdr
       IN IF parsed.t # "obj" THEN JArr(<<>>)
          ELSE IF parsed.scope = "full" THEN JNull
          ELSE IF parsed.scope = "limited" /\ Truthy(parsed.allowed)
               THEN JArr(normalizeAllowedCondominiums(parsed.allowed))
               ELSE JArr(<<>>)

\* function getAdminAllowedCondos(req): JNull stands for null (full access),
\* otherwise JArr of the normalized integers.  hdr is the admin-permissions
\* header: JUndef when absent, else a string.
getAdminAllowedCondos(hdr) ==
  IF ~Truthy(hdr) THEN JNull
  ELSE LET parsed == IF hdr.t = "str" THEN hdr.json ELSE hdr
       IN IF parsed.t \in {"bad", "null", "undef"} THEN JArr(<<>>)   \* throws, caught
          ELSE IF parsed.t # "obj" THEN JArr(<<>>)                    \* .scope undefined
          ELSE IF parsed.scope = "full" THEN JNull
          ELSE IF parsed.scope = "limited" /\ Truthy(parsed.allowed)
               THEN JArr(normalizeAllowedCondominiums(parsed.allowed))
               ELSE JArr(<<>>)

(***************************************************************************)
(* State: the tables the notification subsystem reads and writes.          *)
(***************************************************************************)
VARIABLES
  admins,         \* admins: id -> [username, scope, allowed_condominiums]
  users,          \* users: the ids present
  memberships,    \* user_condominiums: set of <<user_id, condominium_id>>
  notifications,  \* notifications: row i has id i
  adminLinks,     \* admin_notifications rows
  userLinks,      \* user_notifications rows
  adminUnique,    \* does admin_notifications carry UNIQUE(admin_id, notification_id)
  ocorrencias,    \* ocorrencias: row i has id i
  assembleias,    \* assembleias: row i has id i and holds its condominium_id
  amc,            \* admin_message_condominiums: set of <<message_id, condominium_id>>
  userMessages,   \* user_messages: the highest id handed out
  adminMessages,  \* admin_messages: number of rows
  requests,       \* number of requests handled
  call,           \* the last direct call of a function and its result
  resp,           \* the last request handled and its response
  pending,        \* the creating request that waits for its next statement to run
  sseClients,     \* const sseClients: admin id -> the sessions registered, in order
  streams,        \* the response streams of GET /api/notifications/stream: the
                  \* admin id of the request, whether it is open, what was written
  maintenanceUsers, \* maintenance_users: id -> username
  sequences,      \* sqlite_sequence: the highest id handed out by each
                  \* AUTOINCREMENT table
  schema,         \* does notifications have its condominium_id column, does
                  \* the table admin_message_condominiums exist
  fanout          \* the per-admin inserts of a link writer that are under way

\* the tables and bookkeeping only the account, schema and fan-out steps touch
rest == <<maintenanceUsers, sequences, schema, fanout>>

vars == <<admins, users, memberships, notifications, adminLinks, userLinks,
          adminUnique, ocorrencias, assembleias, amc, userMessages, adminMessages,
          requests, call, resp, pending, sseClients, streams, rest>>

\* the sessions (response streams) of GET /api/notifications/stream
MaxSessions == 3
Sessions == 1..MaxSessions
\* no stream is open: the registry is empty and nothing was written
NoClients == [a \in AdminIds |-> <<>>]
NoStreams == [s \in Sessions |-> [admin |-> 0, state |-> "none", written |-> <<>>]]
\* no creating request is under way
NoPending ==
  [kind |-> "none", n |-> 0, condos |-> <<>>, hdr |-> JUndef, targets |-> <<>>]

\* maintenance_users as createDefaultMaintenanceUser leaves it on a new database
DefaultMaintenance ==
  [i \in 1..3 |-> [username |-> <<"Manut", "Manut2", "Manut3">>[i]]]
\* no link writer is running
NoFanout ==
  [fn |-> "none", n |-> 0, targets |-> {}, done |-> <<>>, failed |-> {},
   success |-> 0, errors |-> 0, reports |-> <<>>, pushed |-> {}]
\* a database whose tables were all created by this version of the server
InitRest ==
  /\ maintenanceUsers = DefaultMaintenance
  /\ sequences = [admins |-> NAdmins, maintenance_users |-> 3]
  /\ schema = [condominium_id |-> TRUE, admin_message_condominiums |-> TRUE]
  /\ fanout = NoFanout

\* this.lastID read inside an arrow callback: undefined, which SQLite binds as NULL
UndefinedId == 0

AdminRow(u, sc, al) == [username |-> u, scope |-> sc, allowed |-> al]
\* usernames are unique; the row createDefaultAdmin inserts is named admin
UsernameOf(a) == IF a = 1 THEN "admin" ELSE "gestor" \o ToString(a)
JNums(s) == [i \in 1..Len(s) |-> JNum(s[i])]

(***************************************************************************)
(* SQLite statements on the two link tables.                               *)
(***************************************************************************)
HasAdminLink(rows, a, n) ==
  \E i \in 1..Len(rows) : rows[i].admin_id = a /\ rows[i].notification_id = n
HasUserLink(rows, u, n) ==
  \E i \in 1..Len(rows) : rows[i].user_id = u /\ rows[i].notification_id = n

\* INSERT OR IGNORE INTO admin_notifications (admin_id, notification_id, 0):
\* a NULL notification_id (NOT NULL column) or, when the table has the UNIQUE
\* constraint, an existing pair makes the statement a no-op
InsertOrIgnoreAdminLink(rows, a, n, unique) ==
  IF n = UndefinedId \/ (unique /\ HasAdminLink(rows, a, n)) THEN rows
  ELSE Append(rows, [admin_id |-> a, notification_id |-> n, read_status |-> 0])

\* the per-admin inserts of a fan-out, those of `fail` ending in a store error
RECURSIVE InsertAdminLinks(_, _, _, _, _)
InsertAdminLinks(rows, targets, n, fail, unique) ==
  IF targets = <<>> THEN rows
  ELSE InsertAdminLinks(
         IF Head(targets) \in fail THEN rows
         ELSE InsertOrIgnoreAdminLink(rows, Head(targets), n, unique),
         Tail(targets), n, fail, unique)

\* variant: user_notifications without the UNIQUE constraint
UserLinkConflict_noConstraint(rows, u, n) == FALSE

\* UNIQUE(user_id, notification_id) of createUserNotificationsTable
UserLinkConflict(rows, u, n) == HasUserLink(rows, u, n)

RECURSIVE AppendUserLinks(_, _, _)
AppendUserLinks(rows, us, n) ==
  IF us = <<>> THEN rows
  ELSE AppendUserLinks(
         Append(rows, [user_id |-> Head(us), notification_id |-> n, read_status |-> 0]),
         Tail(us), n)

\* SELECT DISTINCT uc.user_id FROM user_condominiums uc WHERE uc.condominium_id IN (ids)
UsersOfCondos(ids) == {m[1] : m \in {x \in memberships : Includes(ids, x[2])}}

(***************************************************************************)
(* Targeting.                                                              *)
(***************************************************************************)
\* condominiumIds.map(Number).filter(not NaN) of linkNotificationToAdminsByCondominiums
NormalizeCondoIds(C) == FilterNotNaN(MapNumber(C))

\* variant: every limited admin with a non-empty allow-list matches
AdminMatchesCondos_anyLimited(adm, ids) ==
  \/ adm.scope = "full"
  \/ /\ adm.scope = "limited"
     /\ Len(normalizeAllowedCondominiums(adm.allowed)) # 0

\* variant: a limited admin matches only when its allow-list holds every id
AdminMatchesCondos_everyId(adm, ids) ==
  \/ adm.scope = "full"
  \/ /\ adm.scope = "limited"
     /\ LET allowed == normalizeAllowedCondominiums(adm.allowed)
        IN /\ Len(allowed) # 0
           /\ \A i \in 1..Len(ids) : Includes(allowed, ids[i])

\* the loop over the admins of linkNotificationToAdminsByCondominiums
AdminMatchesCondos(adm, ids) ==
  \/ adm.scope = "full"
  \/ /\ adm.scope = "limited"
     /\ LET allowed == normalizeAllowedCondominiums(adm.allowed)
        IN /\ Len(allowed) # 0
           /\ \E i \in 1..Len(ids) : Includes(allowed, ids[i])

adminIdsByCondominiums(ids) ==
  {a \in DOMAIN admins : AdminMatchesCondos(admins[a], ids)}

\* the loop over the admins of linkNotificationToAdmins: condoIds are the user's
UserCondoIds(u) == SortedSeq({m[2] : m \in {x \in memberships : x[1] = u}})

AdminMatchesUser(adm, condoIds) ==
  \/ adm.scope = "full"
  \/ /\ adm.scope = "limited"
     /\ LET allowedCondos == normalizeAllowedCondominiums(adm.allowed)
        IN \E i \in 1..Len(condoIds) : Includes(allowedCondos, condoIds[i])

adminLinksToCreate(u) ==
  {a \in DOMAIN admins : AdminMatchesUser(admins[a], UserCondoIds(u))}

(***************************************************************************)
(* The link writers.  Each returns the rows of its table after the call    *)
(* and what it reports.  fail is the set of admins whose insert ends in a  *)
(* store error; dbErr is a store error of the statement that runs first.   *)
(***************************************************************************)
\* function linkNotificationToAdminsByCondominiums(notificationId, condominiumIds)
linkNotificationToAdminsByCondominiums(rows, n, C, fail, dbErr) ==
  LET ids == NormalizeCondoIds(C)
      adminIds == adminIdsByCondominiums(ids)
      none == [rejected |-> FALSE, linkedCount |-> 0, adminIds |-> {},
               attempted |-> {}, rows |-> rows]
  IN IF n = UndefinedId THEN [none EXCEPT !.rejected = TRUE]
     ELSE IF Len(ids) = 0 THEN none
     ELSE IF dbErr THEN [none EXCEPT !.rejected = TRUE]
     ELSE IF adminIds = {} THEN none
     ELSE [rejected |-> FALSE,
           linkedCount |-> Cardinality(adminIds \ fail),
           adminIds |-> adminIds,
           attempted |-> adminIds,
           rows |-> InsertAdminLinks(rows, SortedSeq(adminIds), n, fail, adminUnique)]

\* variant: any failed insert makes the writer report an error
linkNotificationToAdmins_allOrNothing(rows, n, u, fail, dbErr) ==
  LET targets == adminLinksToCreate(u)
      linksCreated == Cardinality(targets \ fail)
      none == [err |-> FALSE, linkedCount |-> 0, attempted |-> {}, pushed |-> {},
               rows |-> rows]
  IN IF dbErr THEN [none EXCEPT !.err = TRUE]
     ELSE IF targets = {} THEN none
     ELSE [err |-> linksCreated < Cardinality(targets),
           linkedCount |-> linksCreated,
           attempted |-> targets,
           pushed |-> IF linksCreated > 0 THEN targets ELSE {},
           rows |-> InsertAdminLinks(rows, SortedSeq(targets), n, fail, adminUnique)]

\* function linkNotificationToAdmins(notificationId, userId, callback);
\* pushed are the admins sendSseToAdmin is called for
linkNotificationToAdmins(rows, n, u, fail, dbErr) ==
  LET targets == adminLinksToCreate(u)
      linksCreated == Cardinality(targets \ fail)
      none == [err |-> FALSE, linkedCount |-> 0, attempted |-> {}, pushed |-> {},
               rows |-> rows]
  IN IF dbErr THEN [none EXCEPT !.err = TRUE]
     ELSE IF targets = {} THEN none
     ELSE [err |-> linksCreated = 0,
           linkedCount |-> linksCreated,
           attempted |-> targets,
           pushed |-> IF linksCreated > 0 THEN targets ELSE {},
           rows |-> InsertAdminLinks(rows, SortedSeq(targets), n, fail, adminUnique)]

\* function linkNotificationToUsers(notificationId, condominiumIds, callback):
\* one INSERT ... SELECT DISTINCT statement, which fails as a whole on a store
\* error, on a NULL notification id or on a row that breaks the UNIQUE constraint
linkNotificationToUsers(rows, n, C, dbErr) ==
  LET us == UsersOfCondos(FilterNotNaN(MapNumber(C)))
  IN IF Len(C) = 0 THEN [err |-> FALSE, linksCreated |-> 0, rows |-> rows]
     ELSE IF dbErr \/ (us # {} /\ n = UndefinedId)
             \/ \E u \in us : UserLinkConflict(rows, u, n)
          THEN [err |-> TRUE, linksCreated |-> 0, rows |-> rows]
          ELSE [err |-> FALSE, linksCreated |-> Cardinality(us),
                rows |-> AppendUserLinks(rows, SortedSeq(us), n)]

(***************************************************************************)
(* SpecLink: the link writers called directly on a database holding one    *)
(* notification, any admins table and any memberships.                     *)
(***************************************************************************)
\* the admins tables of the initial states: (scope, allowed_condominiums) in a
\* fixed order of kinds, ids being interchangeable.  allowed_condominiums is
\* NULL or the JSON.stringify of what a request carried (a list, a scalar, a
\* string that is no number)
AdminKinds ==
  <<<<"full", JNull>>,
    <<"full", StrJson(StrRaw)>>,
    <<"limited", JNull>>,
    <<"limited", StrJson(JArr(<<StrRaw>>))>>,
    <<"limited", StrJson(JNum(1))>>,
    <<"limited", StrJson(JArr(JNums(SortedSeq(Condos))))>>,
    <<"readonly", JNull>>>>
  \o [c \in 1..NCondos |-> <<"limited", StrJson(JArr(<<JNum(c)>>))>>]

AdminTables ==
  {[a \in AdminIds |-> AdminRow(UsernameOf(a), AdminKinds[k[a]][1], AdminKinds[k[a]][2])] :
     k \in {f \in [AdminIds -> 1..Len(AdminKinds)] :
              \A a, b \in AdminIds : a < b => f[a] <= f[b]}}

\* the condominium id lists a caller passes
CondoLists ==
  {JNums(SortedSeq(S)) : S \in SUBSET Condos}
  \cup {<<StrJson(JNum(1))>>, <<StrRaw>>}

NoCall ==
  [idx |-> 0, fn |-> "none", n |-> 0, condos |-> <<>>, user |-> 0,
   attempted |-> {}, fail |-> {}, dbErr |-> FALSE, err |-> FALSE, count |-> 0,
   beforeAdmin |-> 0, beforeUser |-> 0, repeat |-> FALSE]
NoResp ==
  [handler |-> "none", status |-> 0, primary |-> FALSE, created |-> 0, nid |-> 0,
   user |-> 0, condos |-> {}, fault |-> "none", failed |-> {}, list |-> {},
   count |-> 0, hdr |-> JUndef, targets |-> <<>>]

NotifRow(ty, u, rel, c) ==
  [type |-> ty, user_id |-> u, related_id |-> rel, condominium_id |-> c]

InitLink ==
  /\ admins \in AdminTables
  /\ users = Users
  /\ memberships \in SUBSET (Users \X Condos)
  /\ notifications = <<NotifRow("ocorrencia", 0, 1, 1)>>
  /\ adminLinks = <<>>
  /\ userLinks = <<>>
  /\ adminUnique \in BOOLEAN
  /\ ocorrencias = <<>>
  /\ assembleias = <<>>
  /\ amc = {}
  /\ userMessages = 0
  /\ adminMessages = 0
  /\ requests = 0
  /\ call = NoCall
  /\ resp = NoResp
  /\ pending = NoPending
  /\ sseClients = NoClients
  /\ streams = NoStreams
  /\ InitRest

\* the call repeats the previous one, which ran without a store error
Repeats(fn, C, u) ==
  /\ call.fn = fn /\ call.condos = C /\ call.user = u
  /\ call.fail = {} /\ ~call.err

CallByCondominiums(C, fail, dbErr) ==
  LET r == linkNotificationToAdminsByCondominiums(adminLinks, 1, C, fail, dbErr)
  IN /\ call.idx < MaxCalls
     /\ fail \subseteq adminIdsByCondominiums(NormalizeCondoIds(C))
     /\ adminLinks' = r.rows
     /\ call' = [idx |-> call.idx + 1, fn |-> "byCondominiums", n |-> 1,
                 condos |-> C, user |-> 0, attempted |-> r.attempted,
                 fail |-> fail, dbErr |-> dbErr, err |-> r.rejected, count |-> r.linkedCount,
                 beforeAdmin |-> Len(adminLinks), beforeUser |-> Len(userLinks),
                 repeat |-> Repeats("byCondominiums", C, 0)]
     /\ UNCHANGED <<admins, users, memberships, notifications, userLinks,
                    adminUnique, ocorrencias, assembleias, amc, userMessages,
                    adminMessages, requests, resp, pending,
                    sseClients, streams, rest>>

CallToAdmins(u, fail, dbErr) ==
  LET r == linkNotificationToAdmins(adminLinks, 1, u, fail, dbErr)
  IN /\ call.idx < MaxCalls
     /\ fail \subseteq adminLinksToCreate(u)
     /\ adminLinks' = r.rows
     /\ call' = [idx |-> call.idx + 1, fn |-> "toAdmins", n |-> 1,
                 condos |-> <<>>, user |-> u, attempted |-> r.attempted,
                 fail |-> fail, dbErr |-> dbErr, err |-> r.err, count |-> r.linkedCount,
                 beforeAdmin |-> Len(adminLinks), beforeUser |-> Len(userLinks),
                 repeat |-> Repeats("toAdmins", <<>>, u)]
     /\ UNCHANGED <<admins, users, memberships, notifications, userLinks,
                    adminUnique, ocorrencias, assembleias, amc, userMessages,
                    adminMessages, requests, resp, pending,
                    sseClients, streams, rest>>

CallToUsers(C, dbErr) ==
  LET r == linkNotificationToUsers(userLinks, 1, C, dbErr)
  IN /\ call.idx < MaxCalls
     /\ userLinks' = r.rows
     /\ call' = [idx |-> call.idx + 1, fn |-> "toUsers", n |-> 1,
                 condos |-> C, user |-> 0, attempted |-> {},
                 fail |-> {}, dbErr |-> dbErr, err |-> r.err, count |-> r.linksCreated,
                 beforeAdmin |-> Len(adminLinks), beforeUser |-> Len(userLinks),
                 repeat |-> Repeats("toUsers", C, 0)]
     /\ UNCHANGED <<admins, users, memberships, notifications, adminLinks,
                    adminUnique, ocorrencias, assembleias, amc, userMessages,
                    adminMessages, requests, resp, pending,
                    sseClients, streams, rest>>

NextLink ==
  \/ \E C \in CondoLists, fail \in SUBSET AdminIds, dbErr \in BOOLEAN :
       CallByCondominiums(C, fail, dbErr)
  \/ \E u \in Users, fail \in SUBSET AdminIds, dbErr \in BOOLEAN :
       CallToAdmins(u, fail, dbErr)
  \/ \E C \in CondoLists, dbErr \in BOOLEAN : CallToUsers(C, dbErr)

SpecLink == InitLink /\ [][NextLink]_vars

(***************************************************************************)
(* Spec: the request handlers.  A handler runs as one step and no stream    *)
(* is open, so that the sendSseToAdmin calls of the handlers find no        *)
(* session and write nothing.  resp records the request and its response:  *)
(*   status   the HTTP status sent                                         *)
(*   primary  the row of the primary action was stored                     *)
(*   created  id of the notifications row the request inserted, 0 if none  *)
(*   nid      the notification id the handler holds after the insert       *)
(*   fault    the statement that met a store error, "none" if none did     *)
(*   failed   the admins whose link insert met a store error               *)
(*   list     the notification ids a list request returns                  *)
(*   count    the number an unread-count request returns                   *)
(*   user     the user, or for a request of an admin the admin id, it names *)
(*   hdr      the admin-permissions header of a request of an admin        *)
(*   targets  the target list of an admin message as the request gave it   *)
(***************************************************************************)
Resp(h, st, prim, cr, nid, u, cs, fault, failed) ==
  [handler |-> h, status |-> st, primary |-> prim, created |-> cr, nid |-> nid,
   user |-> u, condos |-> cs, fault |-> fault, failed |-> failed,
   list |-> {}, count |-> 0, hdr |-> JUndef, targets |-> <<>>]

\* the response of a request that carried the header hdr and the target list T
Sent(r, hdr, T) == [r EXCEPT !.hdr = hdr, !.targets = T]

\* the values a request carries as condominium id: absent, a number, or a
\* string that is no number
CondoIdInputs == {JUndef, StrRaw} \cup {JNum(c) : c \in Condos}

\* rows[0].condominium_id of SELECT condominium_id FROM user_condominiums
\* WHERE user_id = ?: any of the user's rows may come first; 0 stands for NULL
UserCondoSet(u) == {m[2] : m \in {x \in memberships : x[1] = u}}
PrimaryCondos(u) == IF UserCondoSet(u) = {} THEN {0} ELSE UserCondoSet(u)

\* a JavaScript number bound to an INTEGER column: NaN is stored as NULL
StoredInt(x) == IF x.t = "num" THEN x.n ELSE 0

NextNotificationId == Len(notifications) + 1

\* the admins whose link insert meets a store error under fault "link": the
\* first of the targets
FailOf(fault, targets) ==
  IF fault = "link" /\ targets # {}
  THEN {CHOOSE a \in targets : \A b \in targets : a <= b}
  ELSE {}

\* the handler may answer without touching the tables; pend is what is left in
\* flight once it has answered
AnswerThen(r, pend) ==
  /\ resp' = r
  /\ pending' = pend
  /\ UNCHANGED <<admins, users, memberships, notifications, adminLinks, userLinks,
                 adminUnique, ocorrencias, assembleias, amc, userMessages,
                 adminMessages, call,
                 sseClients, streams, rest>>

Answer(r) == AnswerThen(r, pending)

\* app.put('/api/users/:id/profile')
UpdateProfile(u, changed, pc, fault) ==
  LET h == "profile"
      n == NextNotificationId
      fail == FailOf(fault, adminLinksToCreate(u))
      r == linkNotificationToAdmins(adminLinks, n, u, fail, fault = "admins")
  IN /\ requests' = requests + 1
     /\ pc \in PrimaryCondos(u)
     /\ fault \in {"none", "primary", "notif", "admins", "link"}
     /\ fault = "link" => fail # {}
     /\ IF u \notin users THEN Answer(Resp(h, 404, FALSE, 0, 0, u, {}, "none", {}))
        ELSE IF ~changed THEN Answer(Resp(h, 200, FALSE, 0, 0, u, {}, "none", {}))
        ELSE IF fault = "primary" THEN Answer(Resp(h, 500, FALSE, 0, 0, u, {}, fault, {}))
        ELSE IF fault = "notif" THEN Answer(Resp(h, 500, TRUE, 0, 0, u, {}, fault, {}))
        ELSE /\ notifications' = Append(notifications, NotifRow("profile_change", u, u, pc))
             /\ adminLinks' = r.rows
             /\ resp' = Resp(h, 200, TRUE, n, n, u, {}, fault, fail)
             /\ UNCHANGED <<admins, users, memberships, userLinks, adminUnique,
                            ocorrencias, assembleias, amc, userMessages,
                            adminMessages, call, pending,
                            sseClients, streams, rest>>

\* the limited-admin test of app.post('/api/messages'): its own parse of
\* allowed_condominiums, which keeps NaN, and Array.prototype.includes
MessagesAllowed(raw) ==
  IF raw.t = "str" /\ raw.json.t = "arr" THEN MapNumber(raw.json.a) ELSE <<>>

MessagesAdminMatches(adm, condoIds) ==
  \/ adm.scope = "full"
  \/ /\ adm.scope = "limited"
     /\ Truthy(adm.allowed)
     /\ \E i \in 1..Len(condoIds) : Includes(MessagesAllowed(adm.allowed), condoIds[i])

\* app.post('/api/messages'); ty is "complaint" or "request"
PostMessages(u, ty, cid, pc, fault) ==
  LET h == "messages"
      n == NextNotificationId
      condoIds == IF Truthy(cid) THEN <<ToNumber(cid)>> ELSE JNums(UserCondoIds(u))
      condoPrimary == IF Truthy(cid) THEN StoredInt(ToNumber(cid)) ELSE pc
      targets == {a \in DOMAIN admins : MessagesAdminMatches(admins[a], condoIds)}
      fail == FailOf(fault, targets)
      nty == IF ty = "complaint" THEN "reclamacao" ELSE "pedido"
      stored == userMessages + 1
  IN /\ requests' = requests + 1
     /\ pc \in PrimaryCondos(u)
     /\ fault \in {"none", "primary", "notif", "admins", "link"}
     /\ fault = "link" => u \in users /\ fail # {}
     /\ IF fault = "primary" THEN Answer(Resp(h, 500, FALSE, 0, 0, u, {}, fault, {}))
        ELSE /\ userMessages' = stored
             /\ IF fault = "notif" \/ u \notin users
                THEN /\ resp' = Resp(h, 201, TRUE, 0, 0, u, {}, fault, {})
                     /\ UNCHANGED <<notifications, adminLinks>>
                ELSE /\ notifications' =
                          Append(notifications, NotifRow(nty, u, stored, condoPrimary))
                     /\ adminLinks' =
                          IF fault = "admins" THEN adminLinks
                          ELSE InsertAdminLinks(adminLinks, SortedSeq(targets), n, fail,
                                                adminUnique)
                     /\ resp' = Resp(h, 201, TRUE, n, n, u, {}, fault, fail)
             /\ UNCHANGED <<admins, users, memberships, userLinks, adminUnique,
                            ocorrencias, assembleias, amc, adminMessages, call, pending,
                            sseClients, streams, rest>>

\* the admin test of app.post('/api/reclamacoes'): allow unless scope is limited
ReclamacoesAllow(adm, targetIds) ==
  IF adm.scope = "limited"
  THEN LET allowed == normalizeAllowedCondominiums(adm.allowed)
       IN /\ Len(allowed) # 0
          /\ Len(targetIds) > 0
          /\ \E i \in 1..Len(targetIds) :
               targetIds[i].t = "num" /\ Includes(allowed, targetIds[i].n)
  ELSE TRUE

\* app.post('/api/reclamacoes'): the notification insert has an arrow callback,
\* so the handler holds this.lastID = undefined as the notification id
PostReclamacoes(u, cid, pc, fault) ==
  LET h == "reclamacoes"
      n == NextNotificationId
      targetIds == IF Truthy(cid) THEN <<ToNumber(cid)>> ELSE JNums(UserCondoIds(u))
      condoToSet == IF Truthy(cid) THEN StoredInt(ToNumber(cid)) ELSE pc
      targets == {a \in DOMAIN admins : ReclamacoesAllow(admins[a], targetIds)}
      fail == FailOf(fault, targets)
      stored == userMessages + 1
  IN /\ requests' = requests + 1
     /\ pc \in PrimaryCondos(u)
     /\ fault \in {"none", "primary", "notif", "admins", "link"}
     /\ fault = "link" => fail # {}
     /\ IF fault = "primary" THEN Answer(Resp(h, 500, FALSE, 0, 0, u, {}, fault, {}))
        ELSE /\ userMessages' = stored
             /\ IF fault = "notif"
                THEN /\ resp' = Resp(h, 500, TRUE, 0, 0, u, {}, fault, {})
                     /\ UNCHANGED <<notifications, adminLinks>>
                ELSE /\ notifications' =
                          Append(notifications,
                                 NotifRow("reclamacao", u, stored, condoToSet))
                     /\ adminLinks' =
                          IF fault = "admins" THEN adminLinks
                          ELSE InsertAdminLinks(adminLinks, SortedSeq(targets),
                                                UndefinedId, fail, adminUnique)
                     /\ resp' = Resp(h, IF fault = "admins" \/ fail # {} THEN 500 ELSE 200,
                                     TRUE, n, UndefinedId, u, {}, fault, fail)
             /\ UNCHANGED <<admins, users, memberships, userLinks, adminUnique,
                            ocorrencias, assembleias, amc, adminMessages, call, pending,
                            sseClients, streams, rest>>

\* app.post('/api/pedidos'): the parameter list of the notification insert reads
\* condoPrimary before its let declaration in the same block, which throws a
\* ReferenceError; the catch block answers 500 and the rest never runs
PostPedidos(u, fault) ==
  LET h == "pedidos"
  IN /\ requests' = requests + 1
     /\ fault \in {"none", "primary"}
     /\ IF fault = "primary" THEN Answer(Resp(h, 500, FALSE, 0, 0, u, {}, fault, {}))
        ELSE /\ userMessages' = userMessages + 1
             /\ resp' = Resp(h, 500, TRUE, 0, 0, u, {}, fault, {})
             /\ UNCHANGED <<admins, users, memberships, notifications, adminLinks,
                            userLinks, adminUnique, ocorrencias, assembleias, amc,
                            adminMessages, call, pending,
                            sseClients, streams, rest>>

\* app.delete('/api/users/:id'): the user_deleted notification is inserted and
\* no link writer is called
DeleteUser(u, fault) ==
  LET h == "deleteUser"
      n == NextNotificationId
  IN /\ requests' = requests + 1
     /\ fault \in {"none", "primary", "notif"}
     /\ IF u \notin users THEN Answer(Resp(h, 404, FALSE, 0, 0, u, {}, "none", {}))
        ELSE IF fault = "primary" THEN Answer(Resp(h, 500, FALSE, 0, 0, u, {}, fault, {}))
        ELSE /\ memberships' = {m \in memberships : m[1] # u}
             /\ users' = users \ {u}
             /\ IF fault = "notif"
                THEN /\ resp' = Resp(h, 500, TRUE, 0, 0, u, {}, fault, {})
                     /\ UNCHANGED notifications
                ELSE /\ notifications' =
                          Append(notifications, NotifRow("user_deleted", 0, 0, 0))
                     /\ resp' = Resp(h, 200, TRUE, n, 0, u, {}, fault, {})
             /\ UNCHANGED <<admins, adminLinks, userLinks, adminUnique, ocorrencias,
                            assembleias, amc, userMessages, adminMessages, call, pending,
                            sseClients, streams, rest>>

\* maintenance_users: the row createDefaultMaintenanceUser inserts
MaintenanceUsers == {1}

\* app.post('/api/admin/ocorrencias') from its INSERT on; assigned is the id of
\* maintenance_users the handler found to exist, or 0 (NULL) when the request
\* assigns nobody.  completed_at is 0 for NULL and 1 for a timestamp
AdminCreateOcorrenciaThen(c, assigned, fault, pend) ==
  LET h == "adminOcorrencia"
      n == NextNotificationId
      fail == FailOf(fault, adminIdsByCondominiums(<<c>>))
      r == linkNotificationToAdminsByCondominiums(adminLinks, n, <<JNum(c)>>, fail,
                                                  fault = "admins")
  IN /\ requests' = requests + 1
     /\ fault \in {"none", "primary", "notif", "admins", "link"}
     /\ fault = "link" => fail # {}
     /\ IF fault = "primary"
        THEN AnswerThen(Resp(h, 500, FALSE, 0, 0, 0, {c}, fault, {}), pend)
        ELSE /\ ocorrencias' = Append(ocorrencias, [condominium_id |-> c, status |-> "pending",
                                                 assigned_to_maintenance |-> assigned,
                                                 completed_at |-> 0])
             /\ pending' = pend
             /\ IF fault = "notif"
                THEN /\ resp' = Resp(h, 201, TRUE, 0, 0, 0, {c}, fault, {})
                     /\ UNCHANGED <<notifications, adminLinks>>
                ELSE /\ notifications' =
                          Append(notifications,
                                 NotifRow("ocorrencia", 0, Len(ocorrencias) + 1, c))
                     /\ adminLinks' = r.rows
                     /\ resp' = Resp(h, 201, TRUE, n, n, 0, {c}, fault, fail)
             /\ UNCHANGED <<admins, users, memberships, userLinks, adminUnique,
                            assembleias, amc, userMessages, adminMessages, call,
                            sseClients, streams, rest>>

AdminCreateOcorrencia(c, assigned, fault) ==
  AdminCreateOcorrenciaThen(c, assigned, fault, pending)

\* app.put('/api/maintenance/ocorrencias/:id') from its UPDATE on: status is
\* written as the body gives it, assigned is the id of maintenance_users the
\* handler found to exist, or 0 when the column is left alone.  The
\* notification insert has an arrow callback, so notificationId is
\* this.lastID = undefined and the if (notificationId) block that links and
\* pushes is skipped
MaintenanceUpdateOcorrenciaThen(id, status, report, assigned, fault, pend) ==
  LET h == "maintenanceUpdate"
      n == NextNotificationId
      c == ocorrencias[id].condominium_id
  IN /\ requests' = requests + 1
     /\ fault \in {"none", "primary", "notif"}
     /\ IF id \notin DOMAIN ocorrencias
        THEN AnswerThen(Resp(h, 404, FALSE, 0, 0, 0, {}, "none", {}), pend)
        ELSE IF fault = "primary"
        THEN AnswerThen(Resp(h, 500, FALSE, 0, 0, 0, {c}, fault, {}), pend)
        ELSE /\ ocorrencias' =
                  [ocorrencias EXCEPT
                     ![id].status = status,
                     ![id].assigned_to_maintenance = IF assigned # 0 THEN assigned ELSE @]
             /\ pending' = pend
             /\ IF status = "pending_verification" /\ report /\ fault # "notif"
                THEN /\ notifications' =
                          Append(notifications, NotifRow("maintenance_completed", 0, id, c))
                     /\ resp' = Resp(h, 200, TRUE, n, UndefinedId, 0, {c}, fault, {})
                ELSE /\ resp' = Resp(h, 200, TRUE, 0, 0, 0, {c}, fault, {})
                     /\ UNCHANGED notifications
             /\ UNCHANGED <<admins, users, memberships, adminLinks, userLinks,
                            adminUnique, assembleias, amc, userMessages,
                            adminMessages, call,
                            sseClients, streams, rest>>

\* the request whose body has no assigned_to_maintenance
MaintenanceUpdateOcorrencia(id, status, report, fault) ==
  MaintenanceUpdateOcorrenciaThen(id, status, report, 0, fault, pending)

\* the notification part of app.put('/api/admin/ocorrencias/:id/verify') and of
\* .../complete, once the occurrence row is updated: a 'maintenance'
\* notification for the assigned maintenance user, linked to the admins of the
\* occurrence's condominium.  verify calls the link writer; complete has its
\* own loop, which attempts the same admins
ReviewOcorrencia(h, id, status, fault) ==
  LET n == NextNotificationId
      row == ocorrencias[id]
      c == row.condominium_id
      fail == FailOf(fault, adminIdsByCondominiums(<<c>>))
      r == linkNotificationToAdminsByCondominiums(adminLinks, n, <<JNum(c)>>, fail,
                                                  fault = "admins")
  IN /\ requests' = requests + 1
     /\ fault \in {"none", "primary", "notif", "admins", "link"}
     /\ fault = "link" =>
          id \in DOMAIN ocorrencias /\ row.assigned_to_maintenance # 0 /\ fail # {}
     /\ IF fault = "primary" THEN Answer(Resp(h, 500, FALSE, 0, 0, 0, {}, fault, {}))
        ELSE IF id \notin DOMAIN ocorrencias
        THEN Answer(Resp(h, 404, FALSE, 0, 0, 0, {}, "none", {}))
        ELSE /\ ocorrencias' =
                  [ocorrencias EXCEPT
                     ![id].status = status,
                     ![id].completed_at = IF status = "completed" THEN 1 ELSE @]
             /\ IF row.assigned_to_maintenance = 0 \/ fault = "notif"
                THEN /\ resp' = Resp(h, 200, TRUE, 0, 0, 0, {c}, fault, {})
                     /\ UNCHANGED <<notifications, adminLinks>>
                ELSE /\ notifications' =
                          Append(notifications,
                                 NotifRow("maintenance", row.assigned_to_maintenance, id, 0))
                     /\ adminLinks' = r.rows
                     /\ resp' = Resp(h, 200, TRUE, n, n, 0, {c}, fault, fail)
             /\ UNCHANGED <<admins, users, memberships, userLinks, adminUnique,
                            assembleias, amc, userMessages, adminMessages, call, pending,
                            sseClients, streams, rest>>

\* app.put('/api/admin/ocorrencias/:id/verify')
VerifyOcorrencia(id, approved, fault) ==
  ReviewOcorrencia("verify", id, IF approved THEN "completed" ELSE "in_progress", fault)

\* app.put('/api/admin/ocorrencias/:id/complete'); status is "" when the request
\* carries none
CompleteOcorrencia(id, status, fault) ==
  ReviewOcorrencia("complete", id, IF status = "" THEN "completed" ELSE status, fault)

\* the admin-permissions headers a request carries: absent, not JSON, or the
\* JSON of an object with scope and allowed_condominiums
PermissionHeaders ==
  {JUndef, StrRaw, StrJson(JObj("full", JNull)), StrJson(JObj("limited", JNull)),
   StrJson(JObj("limited", JArr(<<>>)))}
  \cup {StrJson(JObj("limited", JArr(<<JNum(c)>>))) : c \in Condos}

\* the permission check of app.post('/api/assembleias'): "ok", "denied" (403)
\* or "invalid" (400, JSON.parse or a property read threw)
AssembleiaPermission(hdr, c) ==
  IF ~Truthy(hdr) THEN "ok"
  ELSE LET permissions == hdr.json
       IN IF permissions.t \in {"bad", "null"} THEN "invalid"
          ELSE IF permissions.t # "obj" THEN "ok"
          ELSE IF permissions.scope = "limited" /\ Truthy(permissions.allowed)
               THEN (IF permissions.allowed.t # "arr" THEN "invalid"
                     ELSE IF Includes(permissions.allowed.a, JNum(c)) THEN "ok"
                     ELSE "denied")
               ELSE "ok"

\* app.post('/api/assembleias')
PostAssembleia(c, hdr, fault) ==
  LET h == "assembleia"
      n == NextNotificationId
      fail == FailOf(fault, adminIdsByCondominiums(<<c>>))
      ra == linkNotificationToAdminsByCondominiums(adminLinks, n, <<JNum(c)>>, fail,
                                                   fault = "admins")
      ru == linkNotificationToUsers(userLinks, n, <<JNum(c)>>, fault = "users")
      perm == AssembleiaPermission(hdr, c)
  IN /\ requests' = requests + 1
     /\ fault \in {"none", "primary", "notif", "admins", "users", "link"}
     /\ fault = "link" => fail # {}
     /\ IF perm = "invalid" THEN Answer(Resp(h, 400, FALSE, 0, 0, 0, {c}, "none", {}))
        ELSE IF perm = "denied" THEN Answer(Resp(h, 403, FALSE, 0, 0, 0, {c}, "none", {}))
        ELSE IF fault = "primary" THEN Answer(Resp(h, 500, FALSE, 0, 0, 0, {c}, fault, {}))
        ELSE /\ assembleias' = Append(assembleias, c)
             /\ IF fault = "notif"
                THEN /\ resp' = Resp(h, 201, TRUE, 0, 0, 0, {c}, fault, {})
                     /\ UNCHANGED <<notifications, adminLinks, userLinks>>
                ELSE /\ notifications' =
                          Append(notifications,
                                 NotifRow("assembleia", 0, Len(assembleias) + 1, c))
                     /\ adminLinks' = ra.rows
                     /\ userLinks' = IF ra.rejected THEN userLinks ELSE ru.rows
                     /\ resp' = Resp(h, 201, TRUE, n, n, 0, {c}, fault, fail)
             /\ UNCHANGED <<admins, users, memberships, adminUnique, ocorrencias,
                            amc, userMessages, adminMessages, call, pending,
                            sseClients, streams, rest>>

\* app.post('/api/assembleias/:id/files'): the users are linked first
PostAssembleiaFile(aid, fault) ==
  LET h == "document"
      n == NextNotificationId
      c == assembleias[aid]
      fail == FailOf(fault, adminIdsByCondominiums(<<c>>))
      ru == linkNotificationToUsers(userLinks, n, <<JNum(c)>>, fault = "users")
      ra == linkNotificationToAdminsByCondominiums(adminLinks, n, <<JNum(c)>>, fail,
                                                   fault = "admins")
  IN /\ requests' = requests + 1
     /\ fault \in {"none", "primary", "notif", "admins", "users", "link"}
     /\ fault = "link" => aid \in DOMAIN assembleias /\ fail # {}
     /\ IF fault = "primary" THEN Answer(Resp(h, 500, FALSE, 0, 0, 0, {}, fault, {}))
        ELSE IF aid \notin DOMAIN assembleias \/ fault = "notif"
        THEN Answer(Resp(h, 201, TRUE, 0, 0, 0, {}, fault, {}))
        ELSE /\ notifications' = Append(notifications, NotifRow("document", 0, aid, c))
             /\ userLinks' = ru.rows
             /\ adminLinks' = IF ru.err THEN adminLinks ELSE ra.rows
             /\ resp' = Resp(h, 201, TRUE, n, n, 0, {c}, fault, fail)
             /\ UNCHANGED <<admins, users, memberships, adminUnique, ocorrencias,
                            assembleias, amc, userMessages, adminMessages, call, pending,
                            sseClients, streams, rest>>

\* variant: the target list is not filtered
FilterAllowed_keepAll(ids, allowed) == IF allowed = <<>> THEN <<>> ELSE ids

\* the permission filter of app.post('/api/admin/messages') on the target list;
\* a header that does not parse is logged and the targets stay as they are
RECURSIVE FilterAllowed(_, _)
FilterAllowed(ids, allowed) ==
  IF ids = <<>> THEN <<>>
  ELSE (IF Includes(allowed, Head(ids)) THEN <<Head(ids)>> ELSE <<>>)
       \o FilterAllowed(Tail(ids), allowed)

\* variant: when no target is permitted the request goes on with all of them
MessageTargets_fallBack(targetCondos, hdr) ==
  IF ~Truthy(hdr) THEN [denied |-> FALSE, ids |-> targetCondos]
  ELSE LET perms == hdr.json
       IN IF perms.t = "obj" /\ perms.scope = "limited"
          THEN LET filtered == FilterAllowed(targetCondos,
                                             normalizeAllowedCondominiums(perms.allowed))
               IN [denied |-> FALSE,
                   ids |-> IF Len(filtered) = 0 THEN targetCondos ELSE filtered]
          ELSE [denied |-> FALSE, ids |-> targetCondos]

MessageTargets(targetCondos, hdr) ==
  IF ~Truthy(hdr) THEN [denied |-> FALSE, ids |-> targetCondos]
  ELSE LET perms == hdr.json
       IN IF perms.t = "obj" /\ perms.scope = "limited"
          THEN LET filtered == FilterAllowed(targetCondos,
                                             normalizeAllowedCondominiums(perms.allowed))
               IN [denied |-> Len(filtered) = 0, ids |-> filtered]
          ELSE [denied |-> FALSE, ids |-> targetCondos]

\* app.post('/api/admin/messages'); T is the list of target condominium ids
PostAdminMessage(T, hdr, fault) ==
  LET h == "adminMessage"
      n == NextNotificationId
      targetCondos == NormalizeCondoIds(T)
      mt == MessageTargets(targetCondos, hdr)
      mid == adminMessages + 1
      fail == FailOf(fault, adminIdsByCondominiums(mt.ids))
      ru == linkNotificationToUsers(userLinks, n, JNums(mt.ids), fault = "users")
      ra == linkNotificationToAdminsByCondominiums(adminLinks, n, JNums(mt.ids), fail,
                                                   fault = "admins")
  IN /\ requests' = requests + 1
     /\ fault \in {"none", "primary", "notif", "admins", "users", "link"}
     /\ fault = "link" => fail # {}
     /\ IF Len(targetCondos) = 0 THEN Answer(Sent(Resp(h, 400, FALSE, 0, 0, 0, {}, "none", {}), hdr, T))
        ELSE IF mt.denied THEN Answer(Sent(Resp(h, 403, FALSE, 0, 0, 0, {}, "none", {}), hdr, T))
        ELSE IF fault = "primary"
        THEN Answer(Sent(Resp(h, 500, FALSE, 0, 0, 0, Range(mt.ids), fault, {}), hdr, T))
        ELSE /\ adminMessages' = mid
             /\ amc' = amc \cup {<<mid, c>> : c \in Range(mt.ids)}
             /\ IF fault = "notif"
                THEN /\ resp' = Sent(Resp(h, 500, TRUE, 0, 0, 0, Range(mt.ids), fault, {}),
                                       hdr, T)
                     /\ UNCHANGED <<notifications, adminLinks, userLinks>>
                ELSE /\ notifications' =
                          Append(notifications, NotifRow("admin_message", 0, mid, mt.ids[1]))
                     /\ userLinks' = ru.rows
                     /\ adminLinks' = IF ru.err THEN adminLinks ELSE ra.rows
                     /\ resp' = Sent(Resp(h, IF ru.err \/ ra.rejected THEN 500 ELSE 200,
                                          TRUE, n, n, 0, Range(mt.ids), fault, fail),
                                     hdr, T)
             /\ UNCHANGED <<admins, users, memberships, adminUnique, ocorrencias,
                            assembleias, userMessages, call, pending,
                            sseClients, streams, rest>>

\* the notifications a resident of the condominiums cs is shown: admin messages
\* sent to one of them, documents and assembleias of one of them
VisibleToCondos(cs) ==
  {i \in 1..Len(notifications) :
     \/ /\ notifications[i].type = "admin_message"
        /\ \E c \in cs : <<notifications[i].related_id, c>> \in amc
     \/ /\ notifications[i].type \in {"document", "assembleia"}
        /\ notifications[i].condominium_id \in cs}

\* INSERT OR IGNORE INTO user_notifications ... SELECT ?, n.id ...: the rows that
\* UNIQUE(user_id, notification_id) rejects are skipped
RECURSIVE InsertOrIgnoreUserLinks(_, _, _)
InsertOrIgnoreUserLinks(rows, u, ns) ==
  IF ns = <<>> THEN rows
  ELSE InsertOrIgnoreUserLinks(
         IF UserLinkConflict(rows, u, Head(ns)) THEN rows
         ELSE Append(rows, [user_id |-> u, notification_id |-> Head(ns), read_status |-> 0]),
         u, Tail(ns))

\* app.get('/api/users/:userId/notifications'): backfills the user's links, then lists
GetUserNotifications(u, fault) ==
  LET h == "userNotifications"
      cs == UserCondoSet(u)
      vis == VisibleToCondos(cs)
  IN /\ requests' = requests + 1
     /\ fault \in {"none", "backfill"}
     /\ IF cs = {} THEN Answer(Resp(h, 200, FALSE, 0, 0, u, {}, "none", {}))
        ELSE /\ userLinks' = IF fault = "backfill" THEN userLinks
                             ELSE InsertOrIgnoreUserLinks(userLinks, u, SortedSeq(vis))
             /\ resp' = [Resp(h, 200, FALSE, 0, 0, u, cs, fault, {}) EXCEPT !.list = vis]
             /\ UNCHANGED <<admins, users, memberships, notifications, adminLinks,
                            adminUnique, ocorrencias, assembleias, amc, userMessages,
                            adminMessages, call, pending,
                            sseClients, streams, rest>>

\* variant: the queries of a limited admin are not filtered
PermissionFilter_all(i, allowed) == i \in 1..Len(notifications)

\* the WHERE clause the admin list and unread-count queries add for a limited
\* admin: four alternatives, chosen by the notification type
PermissionFilter(i, allowed) ==
  LET nt == notifications[i]
  IN \/ /\ nt.type = "admin_message"
        /\ \E k \in 1..Len(allowed) : <<nt.related_id, allowed[k]>> \in amc
     \/ /\ nt.type \in {"complaint", "request", "reclamacao", "pedido", "profile_change"}
        /\ \E k \in 1..Len(allowed) : <<nt.user_id, allowed[k]>> \in memberships
     \/ /\ nt.type \in {"ocorrencia", "new_ocorrencia", "maintenance", "maintenance_completed"}
        /\ nt.related_id \in DOMAIN ocorrencias
        /\ Includes(allowed, ocorrencias[nt.related_id].condominium_id)
     \/ /\ nt.type \in {"assembleia", "document", "maintenance_completed"}
        /\ nt.condominium_id # 0
        /\ Includes(allowed, nt.condominium_id)

\* the admin_notifications rows that app.get('/api/notifications') and
\* app.get('/api/notifications/unread-count') select for admin a under the
\* admin-permissions header hdr; a = 0 when the request names no admin, and
\* the list query then has no condition on admin_id
SelectedAdminLinks(a, hdr) ==
  LET allowedCondos == getAdminAllowedCondos(hdr)
  IN IF allowedCondos.t = "arr" /\ Len(allowedCondos.a) = 0 THEN {}
     ELSE {k \in 1..Len(adminLinks) :
             /\ (a = 0 \/ adminLinks[k].admin_id = a)
             /\ adminLinks[k].notification_id \in 1..Len(notifications)
             /\ \/ allowedCondos.t = "null"
                \/ PermissionFilter(adminLinks[k].notification_id, allowedCondos.a)}

\* app.get('/api/notifications'): the notification ids listed
notificationsList(a, hdr) ==
  {adminLinks[k].notification_id : k \in SelectedAdminLinks(a, hdr)}

\* app.get('/api/notifications/unread-count')
unreadCount(a, hdr) ==
  Cardinality({k \in SelectedAdminLinks(a, hdr) : adminLinks[k].read_status = 0})

\* the admin-permissions header a client builds from the admin row it got at login
HeaderOf(adm) == StrJson(JObj(adm.scope, adm.allowed))

\* the admin-permissions headers of the admin messages of Spec: absent, not
\* JSON, limited to nothing and limited to the first condominium
MessageHeaders ==
  {JUndef, StrRaw, StrJson(JObj("limited", JArr(<<>>))),
   StrJson(JObj("limited", JArr(<<JNum(1)>>)))}

Faults == {"none", "primary", "notif", "admins", "users", "link", "backfill"}
\* the target lists of an admin message
TargetLists == {JNums(SortedSeq(S)) : S \in SUBSET Condos} \cup {<<StrRaw>>}

\* the admins tables of the initial states of Spec: the default admin, with
\* full scope, and admins of limited or unknown scope
MainKinds == {<<"full", JNull>>, <<"full", StrJson(StrRaw)>>}
OtherKinds ==
  {<<"limited", JNull>>, <<"limited", StrJson(JArr(<<StrRaw>>))>>, <<"readonly", JNull>>}
  \cup {<<"limited", StrJson(JArr(<<JNum(c)>>))>> : c \in Condos}
SpecAdminTables ==
  {[a \in AdminIds |-> AdminRow(UsernameOf(a), k[a][1], k[a][2])] :
     k \in {f \in [AdminIds -> MainKinds \cup OtherKinds] :
              /\ f[1] \in MainKinds
              /\ \A a \in AdminIds \ {1} : f[a] \in OtherKinds}}

Init ==
  /\ admins \in SpecAdminTables
  /\ users = Users
  /\ memberships \in SUBSET (Users \X Condos)
  /\ notifications = <<>>
  /\ adminLinks = <<>>
  /\ userLinks = <<>>
  /\ adminUnique \in BOOLEAN
  /\ ocorrencias = <<>>
  /\ assembleias = <<>>
  /\ amc = {}
  /\ userMessages = 0
  /\ adminMessages = 0
  /\ requests = 0
  /\ call = NoCall
  /\ resp = NoResp
  /\ pending = NoPending
  /\ sseClients = NoClients
  /\ streams = NoStreams
  /\ InitRest

Request ==
  \/ \E u \in Users, changed \in BOOLEAN, pc \in Condos \cup {0}, fault \in Faults :
       UpdateProfile(u, changed, pc, fault)
  \/ \E u \in Users, ty \in {"complaint", "request"}, cid \in CondoIdInputs,
        pc \in Condos \cup {0}, fault \in Faults : PostMessages(u, ty, cid, pc, fault)
  \/ \E u \in Users, cid \in CondoIdInputs, pc \in Condos \cup {0}, fault \in Faults :
       PostReclamacoes(u, cid, pc, fault)
  \/ \E u \in Users, fault \in Faults : PostPedidos(u, fault)
  \/ \E u \in Users, fault \in Faults : DeleteUser(u, fault)
  \/ \E c \in Condos, assigned \in MaintenanceUsers \cup {0}, fault \in Faults :
       AdminCreateOcorrencia(c, assigned, fault)
  \/ \E id \in 1..(Len(ocorrencias) + 1),
        status \in {"in_progress", "pending_verification"},
        report \in BOOLEAN, fault \in Faults :
       MaintenanceUpdateOcorrencia(id, status, report, fault)
  \/ \E id \in 1..(Len(ocorrencias) + 1), approved \in BOOLEAN, fault \in Faults :
       VerifyOcorrencia(id, approved, fault)
  \/ \E id \in 1..(Len(ocorrencias) + 1), status \in {"", "pending"}, fault \in Faults :
       CompleteOcorrencia(id, status, fault)
  \/ \E c \in Condos, hdr \in PermissionHeaders, fault \in Faults :
       PostAssembleia(c, hdr, fault)
  \/ \E aid \in 1..(Len(assembleias) + 1), fault \in Faults :
       PostAssembleiaFile(aid, fault)
  \/ \E T \in TargetLists, hdr \in MessageHeaders, fault \in Faults :
       PostAdminMessage(T, hdr, fault)
  \/ \E u \in Users, fault \in Faults : GetUserNotifications(u, fault)

Next == requests < MaxRequests /\ Request

Spec == Init /\ [][Next]_vars

(***************************************************************************)
(* SpecAdmin: what the admins are shown.  Notifications are created for    *)
(* occurrences, assembleias and admin messages, the main admin edits the   *)
(* admin accounts, and admins ask for their list and unread count with the *)
(* admin id (0 when absent) and admin-permissions header of their choice.  *)
(***************************************************************************)
MaxAdminRequests == 3

\* app.get('/api/notifications'); fault "query" is a store error of the SELECT
GetNotifications(aid, hdr, fault) ==
  LET h == "notifications"
      allowedCondos == getAdminAllowedCondos(hdr)
      r == Sent(Resp(h, 200, FALSE, 0, 0, aid, {}, fault, {}), hdr, <<>>)
  IN /\ requests' = requests + 1
     /\ fault \in {"none", "query"}
     /\ IF aid = 0 /\ ~Truthy(hdr) THEN Answer([r EXCEPT !.status = 400, !.fault = "none"])
        ELSE IF allowedCondos.t = "arr" /\ Len(allowedCondos.a) = 0
        THEN Answer([r EXCEPT !.fault = "none"])
        ELSE IF fault = "query" THEN Answer([r EXCEPT !.status = 500])
        ELSE Answer([r EXCEPT !.list = notificationsList(aid, hdr)])

\* app.get('/api/notifications/unread-count')
GetUnreadCount(aid, hdr, fault) ==
  LET h == "unreadCount"
      allowedCondos == getAdminAllowedCondos(hdr)
      r == Sent(Resp(h, 200, FALSE, 0, 0, aid, {}, fault, {}), hdr, <<>>)
  IN /\ requests' = requests + 1
     /\ fault \in {"none", "query"}
     /\ IF aid = 0 THEN Answer([r EXCEPT !.status = 400, !.fault = "none"])
        ELSE IF allowedCondos.t = "arr" /\ Len(allowedCondos.a) = 0
        THEN Answer([r EXCEPT !.fault = "none"])
        ELSE IF fault = "query" THEN Answer([r EXCEPT !.status = 500])
        ELSE Answer([r EXCEPT !.count = unreadCount(aid, hdr)])

\* app.put('/api/admins/:id'); username and scope are "" and allowed is JUndef
\* when the request does not carry the field
UpdateAdmin(id, isMain, username, scope, allowed, fault) ==
  LET h == "updateAdmin"
      r == Resp(h, 200, FALSE, 0, 0, id, {}, fault, {})
      rename == username # "" /\ username # admins[id].username
      row == [admins[id] EXCEPT
                !.username = IF rename THEN username ELSE @,
                !.scope = IF scope = "" THEN @ ELSE scope,
                !.allowed = IF allowed = JUndef THEN @
                            ELSE IF Truthy(allowed) THEN StrJson(allowed) ELSE JNull]
  IN /\ requests' = requests + 1
     /\ fault \in {"none", "primary"}
     /\ IF ~isMain THEN Answer([r EXCEPT !.status = 403, !.fault = "none"])
        ELSE IF id \notin DOMAIN admins
        THEN Answer([r EXCEPT !.status = 404, !.fault = "none"])
        ELSE IF rename /\ \E b \in DOMAIN admins \ {id} : admins[b].username = username
        THEN Answer([r EXCEPT !.status = 400, !.fault = "none"])
        ELSE IF ~rename /\ scope = "" /\ allowed = JUndef
        THEN Answer([r EXCEPT !.fault = "none"])
        ELSE IF fault = "primary" THEN Answer([r EXCEPT !.status = 500])
        ELSE /\ admins' = [admins EXCEPT ![id] = row]
             /\ resp' = [r EXCEPT !.primary = TRUE]
             /\ UNCHANGED <<users, memberships, notifications, adminLinks, userLinks,
                            adminUnique, ocorrencias, assembleias, amc, userMessages,
                            adminMessages, call, pending, sseClients, streams, rest>>

\* the headers of the requests of SpecAdmin: those of PermissionHeaders and a
\* limited descriptor whose allowed_condominiums is a string that is no JSON
AdminHeaders == PermissionHeaders \cup {StrJson(JObj("limited", StrRaw))}
\* the allowed_condominiums an edit carries
AllowedInputs == {JUndef} \cup {JArr(<<JNum(c)>>) : c \in Condos}

InitAdmin ==
  /\ admins \in SpecAdminTables
  /\ users = Users
  /\ memberships \in SUBSET (Users \X {1})
  /\ notifications = <<>>
  /\ adminLinks = <<>>
  /\ userLinks = <<>>
  /\ adminUnique \in BOOLEAN
  /\ ocorrencias = <<>>
  /\ assembleias = <<>>
  /\ amc = {}
  /\ userMessages = 0
  /\ adminMessages = 0
  /\ requests = 0
  /\ call = NoCall
  /\ resp = NoResp
  /\ pending = NoPending
  /\ sseClients = NoClients
  /\ streams = NoStreams
  /\ InitRest

AdminRequest ==
  \/ \E c \in Condos : AdminCreateOcorrencia(c, 0, "none")
  \/ \E c \in Condos : PostAssembleia(c, JUndef, "none")
  \/ \E T \in TargetLists, hdr \in {JUndef, StrRaw} : PostAdminMessage(T, hdr, "none")
  \/ \E aid \in AdminIds \cup {0}, hdr \in AdminHeaders :
       GetNotifications(aid, hdr, "none")
  \/ \E aid \in AdminIds \cup {0}, hdr \in AdminHeaders :
       GetUnreadCount(aid, hdr, "none")
  \/ \E id \in AdminIds \ {1}, isMain \in BOOLEAN, scope \in {"", "limited"},
        allowed \in AllowedInputs :
       UpdateAdmin(id, isMain, "", scope, allowed, "none")

NextAdmin == requests < MaxAdminRequests /\ AdminRequest

SpecAdmin == InitAdmin /\ [][NextAdmin]_vars

(***************************************************************************)
(* SpecNorm: normalizeAllowedCondominiums applied to the values a request  *)
(* or an admins row can hold: absent, a scalar, an array of up to          *)
(* MaxElems elements, or the JSON text of one of these.                    *)
(***************************************************************************)
MaxElems == 2

\* the elements of an allow-list: numbers, a numeric string, a string that is
\* no number, null and the empty string
ElemInputs == {JNum(1), JNum(2), StrJson(JNum(1)), StrRaw, JNull, StrEmpty}
ArrayInputs == UNION {[1..k -> ElemInputs] : k \in 0..MaxElems}
ScalarInputs == {JUndef, JNull, JNum(0), JNum(1), StrEmpty, StrRaw}
\* StrJson of a string is the text of a JSON string literal, e.g. '"abc"'
RawInputs ==
  ScalarInputs
  \cup {JArr(a) : a \in ArrayInputs}
  \cup {StrJson(JArr(a)) : a \in ArrayInputs}
  \cup {StrJson(JNum(1)), StrJson(JNull)}

NormCall(idx, fn, raw, out) == [idx |-> idx, fn |-> fn, raw |-> raw, out |-> out]

InitNorm ==
  /\ admins \in {t \in SpecAdminTables : t[1].allowed = JNull /\ t[2].allowed = JNull}
  /\ users = Users
  /\ memberships = {}
  /\ notifications = <<>>
  /\ adminLinks = <<>>
  /\ userLinks = <<>>
  /\ adminUnique = TRUE
  /\ ocorrencias = <<>>
  /\ assembleias = <<>>
  /\ amc = {}
  /\ userMessages = 0
  /\ adminMessages = 0
  /\ requests = 0
  /\ call \in {NormCall(0, "none", raw, <<>>) : raw \in RawInputs}
  /\ resp = NoResp
  /\ pending = NoPending
  /\ sseClients = NoClients
  /\ streams = NoStreams
  /\ InitRest

\* the call normalizeAllowedCondominiums(raw)
CallNormalize ==
  /\ call.fn = "none"
  /\ call' = NormCall(1, "normalize", call.raw, normalizeAllowedCondominiums(call.raw))
  /\ UNCHANGED <<admins, users, memberships, notifications, adminLinks, userLinks,
                 adminUnique, ocorrencias, assembleias, amc, userMessages,
                 adminMessages, requests, resp, pending, sseClients, streams, rest>>

NextNorm == CallNormalize

SpecNorm == InitNorm /\ [][NextNorm]_vars

(***************************************************************************)
(* SpecSse: the registry of event streams.  Admins open and close streams  *)
(* and sendSseToAdmin is called for an admin with a fresh event; bad says  *)
(* for each session which of the two writes of the event throws (0: none). *)
(***************************************************************************)
MaxSends == 2

\* the two res.write calls of an event: its "event:" line and its "data:" line
EventLines(k, bad) ==
  IF bad = 1 THEN <<>> ELSE IF bad = 2 THEN <<<<k, "event">>>>
  ELSE <<<<k, "event">>, <<k, "data">>>>

\* function addSseClient(adminId, res)
addSseClient(reg, a, s) == [reg EXCEPT ![a] = Append(@, s)]

\* function removeSseClient(adminId, res)
removeSseClient(reg, a, s) == [reg EXCEPT ![a] = SelectSeq(@, LAMBDA r : r # s)]

\* variant: the loop has no try/catch, the first failing write ends the call
\* with an exception
RECURSIVE WriteToClients_stopAtFailure(_, _, _, _)
WriteToClients_stopAtFailure(strs, clients, k, bad) ==
  IF clients = <<>> THEN [streams |-> strs, threw |-> FALSE]
  ELSE LET s == Head(clients)
           w == [strs EXCEPT ![s].written = @ \o EventLines(k, bad[s])]
       IN IF bad[s] # 0 THEN [streams |-> w, threw |-> TRUE]
          ELSE WriteToClients_stopAtFailure(w, Tail(clients), k, bad)

\* the loop for (const res of clients) of sendSseToAdmin: a write that throws
\* is caught and logged, and the loop goes on with the next session
RECURSIVE WriteToClients(_, _, _, _)
WriteToClients(strs, clients, k, bad) ==
  IF clients = <<>> THEN [streams |-> strs, threw |-> FALSE]
  ELSE WriteToClients(
         [strs EXCEPT ![Head(clients)].written = @ \o EventLines(k, bad[Head(clients)])],
         Tail(clients), k, bad)

\* variant: the event goes to the sessions of every admin
sendSseToAdmin_everyAdmin(reg, strs, a, k, bad) ==
  WriteToClients(strs, SortedSeq(UNION {Range(reg[b]) : b \in DOMAIN reg}), k, bad)

\* function sendSseToAdmin(adminId, eventName, payload); k numbers the event
sendSseToAdmin(reg, strs, a, k, bad) ==
  LET clients == IF a \in DOMAIN reg THEN reg[a] ELSE <<>>
  IN IF Len(clients) = 0 THEN [streams |-> strs, threw |-> FALSE]
     ELSE WriteToClients(strs, clients, k, bad)

SseCall(idx, fn, a, clients, open, bad, threw) ==
  [idx |-> idx, fn |-> fn, admin |-> a, clients |-> clients, open |-> open,
   bad |-> bad, threw |-> threw]

SseUnchanged == UNCHANGED <<admins, users, memberships, notifications, adminLinks,
                            userLinks, adminUnique, ocorrencias, assembleias, amc,
                            userMessages, adminMessages, requests, resp, pending,
                            rest>>

\* app.get('/api/notifications/stream') on a new response stream s; a is the
\* admin id of the request, 0 when it carries none (answered 400)
OpenStream(s, a) ==
  /\ streams[s].state = "none"
  /\ IF a = 0
     THEN /\ streams' = [streams EXCEPT ![s].state = "closed"]
          /\ UNCHANGED sseClients
     ELSE /\ streams' = [streams EXCEPT ![s] = [admin |-> a, state |-> "open",
                                              written |-> EventLines(0, 0)]]
          /\ sseClients' = addSseClient(sseClients, a, s)
  /\ UNCHANGED call
  /\ SseUnchanged

\* req.on('close') of a stream
CloseStream(s) ==
  /\ streams[s].state = "open"
  /\ sseClients' = removeSseClient(sseClients, streams[s].admin, s)
  /\ streams' = [streams EXCEPT ![s].state = "closed"]
  /\ UNCHANGED call
  /\ SseUnchanged

\* a call sendSseToAdmin(a, event, payload) with the event numbered call.idx + 1
SendSse(a, bad) ==
  LET k == call.idx + 1
      r == sendSseToAdmin(sseClients, streams, a, k, bad)
  IN /\ call.idx < MaxSends
     /\ \A s \in Sessions : bad[s] # 0 => s \in Range(sseClients[a])
     /\ streams' = r.streams
     /\ call' = SseCall(k, "sendSse", a, Range(sseClients[a]),
                        {s \in Sessions : streams[s].state = "open" /\ streams[s].admin = a},
                        bad, r.threw)
     /\ UNCHANGED sseClients
     /\ SseUnchanged

InitSse ==
  /\ admins \in {t \in SpecAdminTables : t[1].allowed = JNull /\ t[2].allowed = JNull}
  /\ users = Users
  /\ memberships = {}
  /\ notifications = <<>>
  /\ adminLinks = <<>>
  /\ userLinks = <<>>
  /\ adminUnique = TRUE
  /\ ocorrencias = <<>>
  /\ assembleias = <<>>
  /\ amc = {}
  /\ userMessages = 0
  /\ adminMessages = 0
  /\ requests = 0
  /\ call = SseCall(0, "none", 0, {}, {}, [s \in Sessions |-> 0], FALSE)
  /\ resp = NoResp
  /\ pending = NoPending
  /\ sseClients = NoClients
  /\ streams = NoStreams
  /\ InitRest

NextSse ==
  \/ \E s \in Sessions, a \in AdminIds \cup {0} : OpenStream(s, a)
  \/ \E s \in Sessions : CloseStream(s)
  \/ \E a \in AdminIds, bad \in [Sessions -> 0..2] : SendSse(a, bad)

SpecSse == InitSse /\ [][NextSse]_vars

(***************************************************************************)
(* SpecRace: the creating requests of admin messages, assembleias and      *)
(* assembleia documents as the event loop runs them.  Each awaits the      *)
(* notification insert, and the handlers of other requests run before its  *)
(* next statement does; here a resident's list request may.  One creating  *)
(* request is under way at a time and no statement meets a store error.    *)
(***************************************************************************)
NRaceUsers == 2
MaxRaceRequests == 3
RaceUsers == 1..NRaceUsers

Waiting(kind, n, ids, hdr, T) ==
  [kind |-> kind, n |-> n, condos |-> ids, hdr |-> hdr, targets |-> T]

RaceUnchanged == UNCHANGED <<admins, users, memberships, adminUnique, ocorrencias,
                             userMessages, call, sseClients, streams, rest>>

\* app.post('/api/admin/messages') up to the await of the notification insert
BeginAdminMessage(T, hdr) ==
  LET targetCondos == NormalizeCondoIds(T)
      mt == MessageTargets(targetCondos, hdr)
      mid == adminMessages + 1
      h == "adminMessage"
  IN /\ pending.kind = "none"
     /\ requests' = requests + 1
     /\ IF Len(targetCondos) = 0
        THEN /\ resp' = Sent(Resp(h, 400, FALSE, 0, 0, 0, {}, "none", {}), hdr, T)
             /\ UNCHANGED <<adminMessages, amc, notifications, pending>>
        ELSE IF mt.denied
        THEN /\ resp' = Sent(Resp(h, 403, FALSE, 0, 0, 0, {}, "none", {}), hdr, T)
             /\ UNCHANGED <<adminMessages, amc, notifications, pending>>
        ELSE /\ adminMessages' = mid
             /\ amc' = amc \cup {<<mid, c>> : c \in Range(mt.ids)}
             /\ notifications' =
                  Append(notifications, NotifRow("admin_message", 0, mid, mt.ids[1]))
             /\ pending' = Waiting(h, NextNotificationId, mt.ids, hdr, T)
             /\ UNCHANGED resp
     /\ UNCHANGED <<assembleias, adminLinks, userLinks>>
     /\ RaceUnchanged

\* app.post('/api/assembleias') up to the await of the notification insert
BeginAssembleia(c, hdr) ==
  LET perm == AssembleiaPermission(hdr, c)
      h == "assembleia"
  IN /\ pending.kind = "none"
     /\ requests' = requests + 1
     /\ IF perm # "ok"
        THEN /\ resp' = Resp(h, IF perm = "invalid" THEN 400 ELSE 403, FALSE, 0, 0, 0,
                             {c}, "none", {})
             /\ UNCHANGED <<assembleias, notifications, pending>>
        ELSE /\ assembleias' = Append(assembleias, c)
             /\ notifications' =
                  Append(notifications, NotifRow("assembleia", 0, Len(assembleias) + 1, c))
             /\ pending' = Waiting(h, NextNotificationId, <<c>>, hdr, <<>>)
             /\ UNCHANGED resp
     /\ UNCHANGED <<adminMessages, amc, adminLinks, userLinks>>
     /\ RaceUnchanged

\* app.post('/api/assembleias/:id/files') up to the await of the notification insert
BeginDocument(aid) ==
  LET h == "document"
  IN /\ pending.kind = "none"
     /\ requests' = requests + 1
     /\ IF aid \notin DOMAIN assembleias
        THEN /\ resp' = Resp(h, 201, TRUE, 0, 0, 0, {}, "none", {})
             /\ UNCHANGED <<notifications, pending>>
        ELSE /\ notifications' =
                  Append(notifications, NotifRow("document", 0, aid, assembleias[aid]))
             /\ pending' = Waiting(h, NextNotificationId, <<assembleias[aid]>>, JUndef, <<>>)
             /\ UNCHANGED resp
     /\ UNCHANGED <<adminMessages, amc, assembleias, adminLinks, userLinks>>
     /\ RaceUnchanged

\* the rest of the creating request: the link writers, then the response.  The
\* admin message and the document link the users first and give up when that
\* fails; the assembleia links the admins first
FinishCreate ==
  LET n == pending.n
      C == JNums(pending.condos)
      ru == linkNotificationToUsers(userLinks, n, C, FALSE)
      ra == linkNotificationToAdminsByCondominiums(adminLinks, n, C, {}, FALSE)
      usersFirst == pending.kind \in {"adminMessage", "document"}
      status == IF pending.kind = "adminMessage" THEN (IF ru.err THEN 500 ELSE 200)
                ELSE 201
  IN /\ pending.kind # "none"
     /\ userLinks' = ru.rows
     /\ adminLinks' = IF usersFirst /\ ru.err THEN adminLinks ELSE ra.rows
     /\ resp' = Sent(Resp(pending.kind, status, TRUE, n, n, 0, Range(pending.condos),
                          "none", {}),
                     pending.hdr, pending.targets)
     /\ pending' = NoPending
     /\ UNCHANGED <<notifications, adminMessages, amc, assembleias, requests>>
     /\ RaceUnchanged

RaceAdminTables == {t \in SpecAdminTables : t[1].allowed = JNull}
\* the admin-permissions headers of the creating requests: absent, or limited
\* to the first condominium
RaceHeaders == {JUndef, StrJson(JObj("limited", JArr(<<JNum(1)>>)))}

InitRace ==
  /\ admins \in RaceAdminTables
  /\ users = RaceUsers
  /\ memberships \in SUBSET (RaceUsers \X Condos)
  /\ notifications = <<>>
  /\ adminLinks = <<>>
  /\ userLinks = <<>>
  /\ adminUnique \in BOOLEAN
  /\ ocorrencias = <<>>
  /\ assembleias = <<>>
  /\ amc = {}
  /\ userMessages = 0
  /\ adminMessages = 0
  /\ requests = 0
  /\ call = NoCall
  /\ resp = NoResp
  /\ pending = NoPending
  /\ sseClients = NoClients
  /\ streams = NoStreams
  /\ InitRest

RaceRequest ==
  \/ \E T \in TargetLists, hdr \in RaceHeaders : BeginAdminMessage(T, hdr)
  \/ \E c \in Condos, hdr \in RaceHeaders : BeginAssembleia(c, hdr)
  \/ \E aid \in 1..(Len(assembleias) + 1) : BeginDocument(aid)
  \/ \E u \in RaceUsers : GetUserNotifications(u, "none")

NextRace ==
  \/ requests < MaxRaceRequests /\ RaceRequest
  \/ FinishCreate

SpecRace == InitRace /\ [][NextRace]_vars

(***************************************************************************)
(* Properties of the link writers (SpecLink).                              *)
(***************************************************************************)
\* every element of C is a condominium id: a number or a numeric string
IsCondoIdList(C) ==
  /\ Len(C) > 0
  /\ \A i \in 1..Len(C) :
       C[i].t = "num" \/ (C[i].t = "str" /\ C[i].num.t = "num")
IdsOf(C) == {ToNumber(C[i]).n : i \in 1..Len(C)}
AllowSet(a) == Range(normalizeAllowedCondominiums(admins[a].allowed))
FullAdmins == {a \in DOMAIN admins : admins[a].scope = "full"}
LimitedAdmins == {a \in DOMAIN admins : admins[a].scope = "limited"}
\* the rows the last call added to admin_notifications
AddedAdminRows == {adminLinks[i] : i \in (call.beforeAdmin + 1)..Len(adminLinks)}

\* C1: a call linkNotificationToAdminsByCondominiums(n, C) with a non-empty list
\* C of condominium ids whose admins query succeeds attempts a link for exactly
\* the full admins plus the limited admins whose normalized allow-list shares
\* at least one id with C, and adds rows for n to no other admin.
Thm_C1 ==
  (call.fn = "byCondominiums" /\ IsCondoIdList(call.condos) /\ ~call.dbErr) =>
    LET expected == FullAdmins \cup
                    {a \in LimitedAdmins : AllowSet(a) \cap IdsOf(call.condos) # {}}
    IN /\ call.attempted = expected
       /\ \A r \in AddedAdminRows :
            r.notification_id = call.n /\ r.admin_id \in expected

\* a limited admin is attempted although its allow-list misses one id of C,
\* while another admin is left out
Wit_C1 ==
  /\ call.fn = "byCondominiums" /\ IsCondoIdList(call.condos) /\ ~call.dbErr
  /\ \E a \in call.attempted :
       /\ admins[a].scope = "limited"
       /\ ~(IdsOf(call.condos) \subseteq AllowSet(a))
       /\ HasAdminLink(adminLinks, a, call.n)
  /\ call.attempted # DOMAIN admins

\* C7 (as stated): a second run of a link writer with the same notification id
\* and the same targets, neither run meeting a store fault, reports no error
\* and leaves the row counts of both link tables as they were after the first.
Cex_C7 ==
  (call.repeat /\ call.fail = {} /\ ~call.dbErr) =>
    /\ ~call.err
    /\ Len(adminLinks) = call.beforeAdmin
    /\ Len(userLinks) = call.beforeUser

\* C9: when in an admin fan-out for n at least one insert fails and at least
\* one succeeds, the writer reports success with a linked count equal to the
\* number of successful inserts (> 0), the rows of the successful inserts are
\* in the table and the notification row n exists.
Thm_C9 ==
  (/\ call.fn \in {"byCondominiums", "toAdmins"}
   /\ call.fail # {}
   /\ call.attempted \ call.fail # {}) =>
    /\ ~call.err
    /\ call.count = Cardinality(call.attempted \ call.fail)
    /\ call.count > 0
    /\ \A a \in call.attempted \ call.fail : HasAdminLink(adminLinks, a, call.n)
    /\ call.n \in 1..Len(notifications)

Wit_C9 ==
  /\ call.fn = "toAdmins"
  /\ call.fail # {}
  /\ call.attempted \ call.fail # {}
  /\ call.count = 1
  /\ Len(adminLinks) > call.beforeAdmin

(***************************************************************************)
(* Properties of the request handlers (Spec).                              *)
(***************************************************************************)
UserScopedHandlers == {"profile", "messages", "reclamacoes", "pedidos"}
UserScopedTypes == {"profile_change", "reclamacao", "pedido"}
CondoScopedTypes ==
  {"ocorrencia", "assembleia", "document", "admin_message", "maintenance",
   "maintenance_completed"}
LinkedTo(a, n) == HasAdminLink(adminLinks, a, n)

\* C2 (as stated): when a user-scoped request of user u has stored its row and
\* met no store fault, there is a notification for it, every full admin is
\* linked to it, and a limited admin is linked to it exactly when its
\* allow-list holds a condominium u is a member of.
Cex_C2 ==
  (/\ resp.handler \in UserScopedHandlers
   /\ resp.primary /\ resp.fault = "none" /\ resp.user \in users) =>
    /\ resp.created # 0
    /\ \A a \in FullAdmins : LinkedTo(a, resp.created)
    /\ \A a \in LimitedAdmins :
         LinkedTo(a, resp.created) <=> (AllowSet(a) \cap UserCondoSet(resp.user) # {})

\* C3 (as stated): a full admin, whatever its allowed_condominiums, is linked to
\* the condominium-scoped or user-scoped notification a request without store
\* fault has created, and its list and unread count are not filtered.
Cex_C3 ==
  \A a \in FullAdmins :
    /\ (/\ resp.created # 0 /\ resp.fault = "none"
        /\ notifications[resp.created].type \in CondoScopedTypes \cup UserScopedTypes)
         => LinkedTo(a, resp.created)
    /\ notificationsList(a, HeaderOf(admins[a])) =
         {i \in 1..Len(notifications) : LinkedTo(a, i)}
    /\ unreadCount(a, HeaderOf(admins[a])) =
         Cardinality({k \in 1..Len(adminLinks) :
                        adminLinks[k].admin_id = a /\ adminLinks[k].read_status = 0})

\* C4 (as stated): no admin_notifications row of a notification other than
\* user_deleted belongs to a limited admin whose normalized allow-list is
\* empty, and the list of such an admin is empty and its unread count is 0.
Cex_C4 ==
  \A a \in LimitedAdmins :
    AllowSet(a) = {} =>
      /\ \A k \in 1..Len(adminLinks) :
           (/\ adminLinks[k].admin_id = a
            /\ adminLinks[k].notification_id \in 1..Len(notifications)
            /\ notifications[adminLinks[k].notification_id].type # "user_deleted")
             => FALSE
      /\ notificationsList(a, HeaderOf(admins[a])) = {}
      /\ unreadCount(a, HeaderOf(admins[a])) = 0

\* C5 (as stated): after a delete request that created the user_deleted
\* notification, every admin of the admins table has a link row for it.
Cex_C5 ==
  (resp.handler = "deleteUser" /\ resp.created # 0) =>
    /\ notifications[resp.created].type = "user_deleted"
    /\ \A a \in DOMAIN admins : LinkedTo(a, resp.created)

\* C6 (as stated): after a maintenance update to pending_verification with a
\* report whose notification insert succeeded, the maintenance_completed
\* notification is linked to every full admin and to every limited admin
\* whose allow-list holds the occurrence's condominium.
Cex_C6 ==
  (resp.handler = "maintenanceUpdate" /\ resp.created # 0) =>
    /\ notifications[resp.created].type = "maintenance_completed"
    /\ \A a \in FullAdmins : LinkedTo(a, resp.created)
    /\ \A a \in LimitedAdmins :
         AllowSet(a) \cap resp.condos # {} => LinkedTo(a, resp.created)

\* C8: in every reachable state, whichever CREATE TABLE of admin_notifications
\* took effect, admin_notifications holds at most one row per (admin_id,
\* notification_id) and user_notifications at most one per (user_id,
\* notification_id).
Thm_C8 ==
  /\ \A i, j \in 1..Len(adminLinks) :
       (/\ adminLinks[i].admin_id = adminLinks[j].admin_id
        /\ adminLinks[i].notification_id = adminLinks[j].notification_id) => i = j
  /\ \A i, j \in 1..Len(userLinks) :
       (/\ userLinks[i].user_id = userLinks[j].user_id
        /\ userLinks[i].notification_id = userLinks[j].notification_id) => i = j

\* a resident opens the list after being linked to a notification, on a
\* database whose admin_notifications has no UNIQUE constraint and holds rows
Wit_C8 ==
  /\ ~adminUnique
  /\ Len(adminLinks) >= 2
  /\ resp.handler = "userNotifications"
  /\ resp.fault = "none"
  /\ \E n \in resp.list : HasUserLink(userLinks, resp.user, n)

LimitedHeader(h) == h.t = "str" /\ h.json.t = "obj" /\ h.json.scope = "limited"
\* the allow-list such a header carries, normalized
HeaderAllowSet(h) == Range(normalizeAllowedCondominiums(h.json.allowed))
\* the stored target condominiums of admin message mid
StoredTargets(mid) == {x[2] : x \in {y \in amc : y[1] = mid}}
UsersLinkedTo(n) == {u \in Users : HasUserLink(userLinks, u, n)}
MembersOf(cs) == {u \in Users : \E c \in cs : <<u, c>> \in memberships}

\* C11: when a limited admin with allow-list A sends an admin message to the
\* condominiums T and A \cap T is not empty, the stored target condominiums of
\* the message are exactly A \cap T, only members of a condominium of A \cap T
\* have a user link to its notification, and without a store fault all of them
\* have one.
Thm_C11 ==
  (/\ resp.handler = "adminMessage" /\ resp.primary
   /\ LimitedHeader(resp.hdr) /\ IsCondoIdList(resp.targets)
   /\ HeaderAllowSet(resp.hdr) \cap IdsOf(resp.targets) # {}) =>
    LET eff == HeaderAllowSet(resp.hdr) \cap IdsOf(resp.targets)
    IN /\ StoredTargets(adminMessages) = eff
       /\ resp.created # 0 => UsersLinkedTo(resp.created) \subseteq MembersOf(eff)
       /\ (resp.created # 0 /\ resp.fault = "none") =>
            UsersLinkedTo(resp.created) = MembersOf(eff)

\* the message was sent to more condominiums than the sender may address, and
\* a resident of a dropped condominium is not linked
Wit_C11 ==
  /\ resp.handler = "adminMessage" /\ resp.status = 200 /\ resp.fault = "none"
  /\ LimitedHeader(resp.hdr) /\ IsCondoIdList(resp.targets)
  /\ HeaderAllowSet(resp.hdr) \cap IdsOf(resp.targets) # {}
  /\ IdsOf(resp.targets) \ HeaderAllowSet(resp.hdr) # {}
  /\ StoredTargets(adminMessages) # IdsOf(resp.targets)
  /\ MembersOf(IdsOf(resp.targets) \ HeaderAllowSet(resp.hdr)) # {}
  /\ UsersLinkedTo(resp.created) = {}

\* C12: a step in which a limited admin sends an admin message whose targets
\* share no condominium with the sender's allow-list answers with an error
\* status and leaves admin_messages, admin_message_condominiums,
\* notifications, admin_notifications and user_notifications as they were.
Thm_C12 ==
  [][(/\ resp'.handler = "adminMessage"
      /\ LimitedHeader(resp'.hdr) /\ IsCondoIdList(resp'.targets)
      /\ HeaderAllowSet(resp'.hdr) \cap IdsOf(resp'.targets) = {}) =>
       /\ resp'.status \in {400, 403}
       /\ UNCHANGED <<adminMessages, amc, notifications, adminLinks, userLinks>>]_vars

\* such a request was refused after an earlier request had stored rows
Wit_C12 ==
  /\ resp.handler = "adminMessage" /\ resp.status = 403
  /\ LimitedHeader(resp.hdr) /\ IsCondoIdList(resp.targets)
  /\ HeaderAllowSet(resp.hdr) # {}
  /\ HeaderAllowSet(resp.hdr) \cap IdsOf(resp.targets) = {}
  /\ Len(notifications) > 0

(***************************************************************************)
(* Properties of the creating requests under interleaving (SpecRace).      *)
(***************************************************************************)
UserLinkCount(u, n) ==
  Cardinality({i \in 1..Len(userLinks) :
                 userLinks[i].user_id = u /\ userLinks[i].notification_id = n})

\* C13 (as stated): once the request that created an admin message, an
\* assembleia or an assembleia document for the condominiums T has answered,
\* every resident who is a member of a condominium of T has exactly one
\* user_notifications row for the new notification, whatever requests ran in
\* between.
Cex_C13 ==
  (/\ resp.handler \in {"adminMessage", "assembleia", "document"}
   /\ resp.created # 0 /\ resp.fault = "none") =>
    \A u \in users :
      (\E c \in resp.condos : <<u, c>> \in memberships) =>
        UserLinkCount(u, resp.created) = 1

(***************************************************************************)
(* Properties of what the admins are shown (SpecAdmin).                    *)
(***************************************************************************)
\* the condominiums of a condominium-scoped notification: the targets of the
\* admin message, the condominium of the occurrence, or the one the row holds
NotifCondos(n) ==
  LET nt == notifications[n]
  IN IF nt.type = "admin_message" THEN StoredTargets(nt.related_id)
     ELSE IF nt.type \in {"ocorrencia", "maintenance"} /\ nt.related_id \in DOMAIN ocorrencias
     THEN {ocorrencias[nt.related_id].condominium_id}
     ELSE {nt.condominium_id}
IsCondoScoped(n) == notifications[n].type \in CondoScopedTypes
UnreadLinksOf(a) ==
  {k \in 1..Len(adminLinks) : adminLinks[k].admin_id = a /\ adminLinks[k].read_status = 0}

\* C14: a list or unread-count request made for an admin with a limited
\* descriptor shows a condominium-scoped notification the admin is linked to
\* exactly when the descriptor's allow-list holds a condominium of the
\* notification, whatever the allow-list was when the link was written; and a
\* list request, an unread-count request or an edit of an admin account
\* leaves admin_notifications as it is.
Thm_C14 ==
  [][/\ resp'.handler \in {"notifications", "unreadCount", "updateAdmin"} =>
          adminLinks' = adminLinks
     /\ (/\ resp'.handler = "notifications" /\ resp'.status = 200
         /\ resp'.user # 0 /\ LimitedHeader(resp'.hdr)) =>
          \A n \in 1..Len(notifications) :
            (LinkedTo(resp'.user, n) /\ IsCondoScoped(n)) =>
              (n \in resp'.list <=> NotifCondos(n) \cap HeaderAllowSet(resp'.hdr) # {})
     /\ (/\ resp'.handler = "unreadCount" /\ resp'.status = 200
         /\ resp'.user # 0 /\ LimitedHeader(resp'.hdr)
         /\ \A n \in 1..Len(notifications) : IsCondoScoped(n)) =>
          resp'.count =
            Cardinality({k \in UnreadLinksOf(resp'.user) :
                           NotifCondos(adminLinks[k].notification_id)
                             \cap HeaderAllowSet(resp'.hdr) # {}})]_vars

\* a limited admin was linked to a notification, its allow-list was changed to
\* another condominium, and its list made with the new allow-list leaves the
\* notification out
Wit_C14 ==
  /\ resp.handler = "notifications" /\ resp.status = 200
  /\ resp.user \in LimitedAdmins
  /\ LimitedHeader(resp.hdr)
  /\ HeaderAllowSet(resp.hdr) = AllowSet(resp.user)
  /\ AllowSet(resp.user) # {}
  /\ \E n \in 1..Len(notifications) :
       /\ LinkedTo(resp.user, n)
       /\ NotifCondos(n) \cap AllowSet(resp.user) = {}
       /\ n \notin resp.list

\* C15: a request that creates an occurrence in condominium c without a store
\* error raises by exactly 1 the unread count of every admin that has scope
\* full or is limited with c in its allow-list, and the notification is in
\* that admin's list; for a limited admin whose allow-list lacks c the unread
\* count stays and no link row is written.
Thm_C15 ==
  [][(/\ resp'.handler = "adminOcorrencia"
      /\ resp'.created # 0 /\ resp'.fault = "none") =>
       \A a \in DOMAIN admins, c \in resp'.condos :
         LET H == HeaderOf(admins[a])
         IN /\ (a \in FullAdmins \/ (a \in LimitedAdmins /\ c \in AllowSet(a))) =>
                 /\ unreadCount(a, H)' = unreadCount(a, H) + 1
                 /\ resp'.created \in notificationsList(a, H)'
            /\ (a \in LimitedAdmins /\ c \notin AllowSet(a)) =>
                 /\ unreadCount(a, H)' = unreadCount(a, H)
                 /\ ~HasAdminLink(adminLinks', a, resp'.created)]_vars

\* an occurrence was created in a condominium outside the non-empty allow-list
\* of a limited admin, who is not linked, while another admin is
Wit_C15 ==
  /\ resp.handler = "adminOcorrencia" /\ resp.created # 0 /\ resp.fault = "none"
  /\ \E a \in LimitedAdmins :
       /\ AllowSet(a) # {}
       /\ AllowSet(a) \cap resp.condos = {}
       /\ ~LinkedTo(a, resp.created)
       /\ unreadCount(a, HeaderOf(admins[a])) = 0
  /\ \E b \in FullAdmins : unreadCount(b, HeaderOf(admins[b])) = 1

\* C16: a list or unread-count request that names an admin and carries a
\* limited descriptor with an empty allow-list gets the empty list and the
\* count 0, and one that carries no descriptor gets every notification linked
\* to that admin and the number of its unread link rows.
Thm_C16 ==
  (resp.handler \in {"notifications", "unreadCount"} /\ resp.user # 0) =>
    /\ (LimitedHeader(resp.hdr) /\ HeaderAllowSet(resp.hdr) = {}) =>
         resp.status = 200 /\ resp.list = {} /\ resp.count = 0
    /\ (resp.hdr = JUndef /\ resp.fault = "none") =>
         /\ resp.status = 200
         /\ resp.handler = "notifications" =>
              resp.list = {n \in 1..Len(notifications) : LinkedTo(resp.user, n)}
         /\ resp.handler = "unreadCount" =>
              resp.count = Cardinality(UnreadLinksOf(resp.user))

\* a limited admin whose allow-list misses a notification it is linked to is
\* shown that notification when it sends no descriptor
Wit_C16 ==
  /\ resp.handler = "notifications" /\ resp.hdr = JUndef
  /\ resp.user \in LimitedAdmins
  /\ \E n \in resp.list : NotifCondos(n) \cap AllowSet(resp.user) = {}

\* the header is no JSON, or its descriptor is limited with an allow-list that
\* is no JSON
Malformed(h) ==
  /\ h.t = "str"
  /\ \/ h.json = JBad
     \/ /\ LimitedHeader(h)
        /\ h.json.allowed.t = "str" /\ h.json.allowed.json = JBad

\* C17 (as stated): a request with a malformed permission descriptor is
\* answered as one without access: the list is empty and the unread count 0
\* with a success status, and an admin message is not stored for the target
\* list as requested.
Cex_C17 ==
  Malformed(resp.hdr) =>
    /\ (resp.handler \in {"notifications", "unreadCount"} /\ resp.user # 0) =>
         resp.status = 200 /\ resp.list = {} /\ resp.count = 0
    /\ resp.handler = "adminMessage" => ~resp.primary /\ resp.created = 0

(***************************************************************************)
(* Properties of normalizeAllowedCondominiums (SpecNorm).                  *)
(***************************************************************************)
\* the elements the value stands for: those of the array, or the scalar
\* itself, a JSON text standing for what it parses to
ElementsOf(raw) ==
  LET v == IF raw.t = "str" /\ raw.json # JBad THEN raw.json ELSE raw
  IN IF v.t = "arr" THEN v.a ELSE <<v>>
\* the element is a number or a numeric string
IsNumeric(x) == x.t = "num" \/ (x.t = "str" /\ ~x.empty /\ x.num.t = "num")
RECURSIVE IntegersOf(_)
IntegersOf(es) ==
  IF es = <<>> THEN <<>>
  ELSE (IF IsNumeric(Head(es)) THEN <<ToNumber(Head(es)).n>> ELSE <<>>)
       \o IntegersOf(Tail(es))

\* C18 (as stated): normalizeAllowedCondominiums(raw) returns the integers of
\* the numeric elements of raw, in order: a bare scalar is a singleton, and an
\* element that is a non-numeric string, null or the empty string is dropped.
Cex_C18 ==
  call.fn = "normalize" => call.out = IntegersOf(ElementsOf(call.raw))

(***************************************************************************)
(* Properties of the event streams (SpecSse).                              *)
(***************************************************************************)
\* both lines of event k were written to session s / no line of it was
GotEvent(strs, s, k) ==
  /\ \E i \in 1..Len(strs[s].written) : strs[s].written[i] = <<k, "event">>
  /\ \E i \in 1..Len(strs[s].written) : strs[s].written[i] = <<k, "data">>
GotNothing(strs, s, k) ==
  \A i \in 1..Len(strs[s].written) : strs[s].written[i][1] # k

\* C19: a call sendSseToAdmin(a, event, payload) none of whose writes fails
\* writes the event to exactly the sessions registered for a when it is
\* called, which are the streams opened for a and not yet closed: each of them
\* gets the event, no other session does (not one of another admin, not one
\* removed before), and with no session registered the call writes nothing
\* and does not throw.
Thm_C19 ==
  [][(call'.fn = "sendSse" /\ call'.idx # call.idx
      /\ \A s \in Sessions : call'.bad[s] = 0) =>
       /\ call'.clients = call'.open
       /\ \A s \in call'.clients : GotEvent(streams', s, call'.idx)
       /\ \A s \in Sessions \ call'.clients : streams'[s] = streams[s]
       /\ ~call'.threw]_vars

\* the event went to a session of the admin, while a session of another admin
\* and a closed session of the same admin got nothing
Wit_C19 ==
  /\ call.fn = "sendSse"
  /\ \A s \in Sessions : call.bad[s] = 0
  /\ \E s \in Sessions : GotEvent(streams, s, call.idx)
  /\ \E s \in Sessions :
       /\ streams[s].state = "open" /\ streams[s].admin # call.admin
       /\ GotNothing(streams, s, call.idx)
  /\ \E s \in Sessions :
       /\ streams[s].state = "closed" /\ streams[s].admin = call.admin
       /\ s \notin call.clients
       /\ GotNothing(streams, s, call.idx)

\* C20: when a write to one session fails during sendSseToAdmin, every other
\* registered session of the admin whose writes succeed still gets the event,
\* the call does not throw, and the notifications, the link rows and the
\* registry stay as they were.
Thm_C20 ==
  [][(call'.fn = "sendSse" /\ call'.idx # call.idx
      /\ \E s \in Sessions : call'.bad[s] # 0) =>
       /\ \A s \in call'.clients : call'.bad[s] = 0 => GotEvent(streams', s, call'.idx)
       /\ ~call'.threw
       /\ UNCHANGED <<notifications, adminLinks, userLinks, sseClients>>]_vars

\* the write to the first session of the admin failed and a later session got
\* the event
Wit_C20 ==
  /\ call.fn = "sendSse"
  /\ \E s, t \in call.clients :
       /\ s < t
       /\ call.bad[s] = 1 /\ call.bad[t] = 0
       /\ GotNothing(streams, s, call.idx)
       /\ GotEvent(streams, t, call.idx)

(***************************************************************************)
(* SpecAccounts: the admin accounts.  The server starts again on its       *)
(* database, the main admin creates, edits and deletes accounts, and       *)
(* occurrences are created and listed meanwhile.                           *)
(***************************************************************************)
MaxAccountRequests == 3

\* INSERT OR REPLACE INTO t (username, ...) on a table with UNIQUE(username)
\* and an AUTOINCREMENT id: the row that holds the username is deleted and the
\* new row gets the id newId
InsertOrReplace(t, newId, row) ==
  [a \in {x \in DOMAIN t : t[x].username # row.username} \cup {newId} |->
     IF a = newId THEN row ELSE t[a]]

\* the ids of the accounts named 'admin'
MainAdminIds(t) == {a \in DOMAIN t : t[a].username = "admin"}

\* the server starts on the database as it is: initializeDatabase runs
\* createDefaultAdmin and createDefaultMaintenanceUser; the new process has no
\* stream registered and no request in flight.  fault "primary" is a store error of the admins insert
Restart(fault) ==
  LET newId == sequences.admins + 1
      m == sequences.maintenance_users
      old == MainAdminIds(admins)
      r == Resp("restart", 0, fault = "none", 0, newId,
                IF old = {} THEN 0 ELSE CHOOSE a \in old : TRUE, {}, fault, {})
  IN /\ requests' = requests + 1
     /\ fault \in {"none", "primary"}
     /\ admins' = IF fault = "primary" THEN admins
                  ELSE InsertOrReplace(admins, newId, AdminRow("admin", "full", JNull))
     /\ maintenanceUsers' =
          InsertOrReplace(
            InsertOrReplace(
              InsertOrReplace(maintenanceUsers, m + 1, [username |-> "Manut"]),
              m + 2, [username |-> "Manut2"]),
            m + 3, [username |-> "Manut3"])
     /\ sequences' = [admins |-> IF fault = "primary" THEN sequences.admins ELSE newId,
                      maintenance_users |-> m + 3]
     /\ sseClients' = NoClients
     /\ streams' = [s \in Sessions |->
                      IF streams[s].state = "open"
                      THEN [streams[s] EXCEPT !.state = "closed"] ELSE streams[s]]
     /\ resp' = r
     /\ pending' = NoPending
     /\ UNCHANGED <<users, memberships, notifications, adminLinks, userLinks,
                    adminUnique, ocorrencias, assembleias, amc, userMessages,
                    adminMessages, call, schema, fanout>>

\* app.post('/api/admins'); scope is "" and allowed JUndef when the request
\* does not carry the field
CreateAdmin(isMain, username, scope, allowed, fault) ==
  LET h == "createAdmin"
      newId == sequences.admins + 1
      r == Resp(h, 201, FALSE, 0, newId, 0, {}, fault, {})
      row == AdminRow(username, IF scope = "" THEN "full" ELSE scope,
                      IF allowed # JUndef /\ Truthy(allowed) THEN StrJson(allowed)
                      ELSE JNull)
  IN /\ requests' = requests + 1
     /\ fault \in {"none", "primary"}
     /\ IF ~isMain THEN Answer([r EXCEPT !.status = 403, !.fault = "none", !.nid = 0])
        ELSE IF username = ""
        THEN Answer([r EXCEPT !.status = 400, !.fault = "none", !.nid = 0])
        ELSE IF \E b \in DOMAIN admins : admins[b].username = username
        THEN Answer([r EXCEPT !.status = 400, !.fault = "none", !.nid = 0])
        ELSE IF fault = "primary" THEN Answer([r EXCEPT !.status = 500, !.nid = 0])
        ELSE /\ admins' = [a \in DOMAIN admins \cup {newId} |->
                             IF a = newId THEN row ELSE admins[a]]
             /\ sequences' = [sequences EXCEPT !.admins = newId]
             /\ resp' = [r EXCEPT !.primary = TRUE, !.user = newId]
             /\ UNCHANGED <<users, memberships, notifications, adminLinks, userLinks,
                            adminUnique, ocorrencias, assembleias, amc, userMessages,
                            adminMessages, call, pending, sseClients, streams,
                            maintenanceUsers, schema, fanout>>

\* app.delete('/api/admins/:id'); resp.targets holds the username of the row
DeleteAdmin(id, isMain, fault) ==
  LET h == "deleteAdmin"
      r == Resp(h, 200, FALSE, 0, 0, id, {}, fault, {})
  IN /\ requests' = requests + 1
     /\ fault \in {"none", "primary"}
     /\ IF ~isMain THEN Answer([r EXCEPT !.status = 403, !.fault = "none"])
        ELSE IF id \notin DOMAIN admins
        THEN Answer([r EXCEPT !.status = 404, !.fault = "none"])
        ELSE IF admins[id].username = "admin"
        THEN Answer([r EXCEPT !.status = 400, !.fault = "none",
                              !.targets = <<admins[id].username>>])
        ELSE IF fault = "primary"
        THEN Answer([r EXCEPT !.status = 500, !.targets = <<admins[id].username>>])
        ELSE /\ admins' = [a \in DOMAIN admins \ {id} |-> admins[a]]
             /\ resp' = [r EXCEPT !.primary = TRUE, !.targets = <<admins[id].username>>]
             /\ UNCHANGED <<users, memberships, notifications, adminLinks, userLinks,
                            adminUnique, ocorrencias, assembleias, amc, userMessages,
                            adminMessages, call, pending, sseClients, streams, rest>>

\* the ids an admins row can have, and the usernames a request carries
AccountIds == 1..(NAdmins + MaxAccountRequests)
Usernames == {"", "admin", "chefe"}

InitAccounts ==
  /\ admins \in SpecAdminTables
  /\ users = Users
  /\ memberships = {}
  /\ notifications = <<>>
  /\ adminLinks = <<>>
  /\ userLinks = <<>>
  /\ adminUnique = TRUE
  /\ ocorrencias = <<>>
  /\ assembleias = <<>>
  /\ amc = {}
  /\ userMessages = 0
  /\ adminMessages = 0
  /\ requests = 0
  /\ call = NoCall
  /\ resp = NoResp
  /\ pending = NoPending
  /\ sseClients = NoClients
  /\ streams = NoStreams
  /\ InitRest

AccountRequest ==
  \/ \E fault \in {"none", "primary"} : Restart(fault)
  \/ \E isMain \in BOOLEAN, username \in Usernames, c \in Condos :
       CreateAdmin(isMain, username, "limited", JArr(<<JNum(c)>>), "none")
  \/ \E id \in DOMAIN admins \cup {NAdmins + 1}, isMain \in BOOLEAN,
        username \in Usernames, scope \in {"", "limited"} :
       UpdateAdmin(id, isMain, username, scope, JUndef, "none")
  \/ \E id \in DOMAIN admins \cup {NAdmins + 1}, isMain \in BOOLEAN,
        fault \in {"none", "primary"} : DeleteAdmin(id, isMain, fault)
  \/ \E c \in Condos : AdminCreateOcorrencia(c, 0, "none")
  \/ \E aid \in DOMAIN admins \cup {1} : GetNotifications(aid, JUndef, "none")

NextAccounts == requests < MaxAccountRequests /\ AccountRequest

SpecAccounts == InitAccounts /\ [][NextAccounts]_vars

(***************************************************************************)
(* Properties of the admin accounts (SpecAccounts).                        *)
(***************************************************************************)
\* C21 (as stated): after any sequence of server starts and of requests that
\* create, edit (rename included) and delete admin accounts, exactly one
\* account is named 'admin', and a delete request for that account is refused
\* and leaves it in place.
Cex_C21 ==
  /\ Cardinality(MainAdminIds(admins)) = 1
  /\ (resp.handler = "deleteAdmin" /\ resp.targets = <<"admin">>) =>
       /\ ~resp.primary /\ resp.status # 200
       /\ resp.user \in MainAdminIds(admins)

\* C26 (as stated): a server start on an existing database leaves the main
\* admin's row as it was, id, scope and allow-list, and what its list request
\* returned before is still returned for it.
Cex_C26 ==
  [][(resp'.handler = "restart" /\ requests' = requests + 1 /\ resp'.primary) =>
       \A a \in MainAdminIds(admins) :
         /\ a \in DOMAIN admins' /\ admins'[a] = admins[a]
         /\ notificationsList(a, HeaderOf(admins[a]))
              \subseteq notificationsList(a, HeaderOf(admins[a]))']_vars

(***************************************************************************)
(* SpecRead: read state.  Admin messages and occurrences are created,      *)
(* residents ask for their list and unread count, leave a condominium and  *)
(* mark notifications read, and admins mark theirs read.                   *)
(***************************************************************************)
MaxReadRequests == 4

\* variant: the UPDATE has no condition on admin_id
MarkAdminLinks_anyAdmin(rows, a, n) ==
  [k \in 1..Len(rows) |->
     IF (n = 0 /\ rows[k].read_status = 0) \/ rows[k].notification_id = n
     THEN [rows[k] EXCEPT !.read_status = 1] ELSE rows[k]]

\* UPDATE admin_notifications SET read_status = 1 WHERE notification_id = n AND
\* admin_id = a, and with n = 0 the statement of mark-all-read:
\* ... WHERE admin_id = a AND read_status = 0
MarkAdminLinks(rows, a, n) ==
  [k \in 1..Len(rows) |->
     IF rows[k].admin_id = a /\ (n = 0 \/ rows[k].notification_id = n)
     THEN [rows[k] EXCEPT !.read_status = 1] ELSE rows[k]]

\* app.put('/api/notifications/:id/read'); aid is 0 when the request names no admin
MarkNotificationRead(aid, n, fault) ==
  LET h == "markRead"
      r == Resp(h, 200, FALSE, 0, n, aid, {}, fault, {})
  IN /\ requests' = requests + 1
     /\ fault \in {"none", "primary"}
     /\ IF aid = 0 THEN Answer([r EXCEPT !.status = 400, !.fault = "none"])
        ELSE IF fault = "primary" THEN Answer([r EXCEPT !.status = 500])
        ELSE IF ~HasAdminLink(adminLinks, aid, n) THEN Answer([r EXCEPT !.status = 404])
        ELSE /\ adminLinks' = MarkAdminLinks(adminLinks, aid, n)
             /\ resp' = [r EXCEPT !.primary = TRUE]
             /\ UNCHANGED <<admins, users, memberships, notifications, userLinks,
                            adminUnique, ocorrencias, assembleias, amc, userMessages,
                            adminMessages, call, pending, sseClients, streams, rest>>

\* app.put('/api/notifications/mark-all-read'): the sessions of the admin are
\* sent the event notifications_cleared, numbered -1 here
MarkAllRead(aid, fault) ==
  LET h == "markAllRead"
      r == Resp(h, 200, FALSE, 0, 0, aid, {}, fault, {})
  IN /\ requests' = requests + 1
     /\ fault \in {"none", "primary"}
     /\ IF aid = 0 THEN Answer([r EXCEPT !.status = 400, !.fault = "none"])
        ELSE IF fault = "primary" THEN Answer([r EXCEPT !.status = 500])
        ELSE /\ adminLinks' = MarkAdminLinks(adminLinks, aid, 0)
             /\ streams' = sendSseToAdmin(sseClients, streams, aid, -1,
                                          [s \in Sessions |-> 0]).streams
             /\ resp' = [r EXCEPT !.primary = TRUE]
             /\ UNCHANGED <<admins, users, memberships, notifications, userLinks,
                            adminUnique, ocorrencias, assembleias, amc, userMessages,
                            adminMessages, call, pending, sseClients, rest>>

\* app.put('/api/users/:userId/notifications/:notificationId/read')
MarkUserNotificationRead(u, n, fault) ==
  LET h == "markUserRead"
      r == Resp(h, 200, FALSE, 0, n, u, {}, fault, {})
  IN /\ requests' = requests + 1
     /\ fault \in {"none", "primary"}
     /\ IF fault = "primary" THEN Answer([r EXCEPT !.status = 500])
        ELSE /\ userLinks' =
                  [k \in 1..Len(userLinks) |->
                     IF userLinks[k].user_id = u /\ userLinks[k].notification_id = n
                     THEN [userLinks[k] EXCEPT !.read_status = 1] ELSE userLinks[k]]
             /\ resp' = [r EXCEPT !.primary = TRUE]
             /\ UNCHANGED <<admins, users, memberships, notifications, adminLinks,
                            adminUnique, ocorrencias, assembleias, amc, userMessages,
                            adminMessages, call, pending, sseClients, streams, rest>>

\* SELECT COUNT(*) FROM notifications n JOIN user_notifications un ON
\* n.id = un.notification_id WHERE un.user_id = ? AND un.read_status = 0
userUnreadCount(u) ==
  Cardinality({k \in 1..Len(userLinks) :
                 /\ userLinks[k].user_id = u /\ userLinks[k].read_status = 0
                 /\ userLinks[k].notification_id \in 1..Len(notifications)})

\* app.get('/api/users/:id/notifications/unread-count')
GetUserUnreadCount(u, fault) ==
  LET h == "userUnreadCount"
      r == Resp(h, 200, FALSE, 0, 0, u, {}, fault, {})
  IN /\ requests' = requests + 1
     /\ fault \in {"none", "query"}
     /\ IF fault = "query" THEN Answer([r EXCEPT !.status = 500])
        ELSE Answer([r EXCEPT !.count = userUnreadCount(u)])

\* app.delete('/api/users/:userId/condominiums/:condominiumId')
RemoveUserFromCondominium(u, c, fault) ==
  LET h == "removeMembership"
      r == Resp(h, 200, FALSE, 0, 0, u, {c}, fault, {})
  IN /\ requests' = requests + 1
     /\ fault \in {"none", "primary"}
     /\ IF fault = "primary" THEN Answer([r EXCEPT !.status = 500])
        ELSE /\ memberships' = memberships \ {<<u, c>>}
             /\ resp' = [r EXCEPT !.primary = <<u, c>> \in memberships]
             /\ UNCHANGED <<admins, users, notifications, adminLinks, userLinks,
                            adminUnique, ocorrencias, assembleias, amc, userMessages,
                            adminMessages, call, pending, sseClients, streams, rest>>

InitRead ==
  /\ admins \in {t \in SpecAdminTables : t[1].allowed = JNull /\ t[2].allowed # JNull}
  /\ users = Users
  /\ memberships \in SUBSET (Users \X Condos)
  /\ notifications = <<>>
  /\ adminLinks = <<>>
  /\ userLinks = <<>>
  /\ adminUnique = TRUE
  /\ ocorrencias = <<>>
  /\ assembleias = <<>>
  /\ amc = {}
  /\ userMessages = 0
  /\ adminMessages = 0
  /\ requests = 0
  /\ call = NoCall
  /\ resp = NoResp
  /\ pending = NoPending
  /\ sseClients = NoClients
  /\ streams = NoStreams
  /\ InitRest

ReadRequest ==
  \/ \E c \in Condos : PostAdminMessage(<<JNum(c)>>, JUndef, "none")
  \/ \E c \in Condos : AdminCreateOcorrencia(c, 0, "none")
  \/ \E u \in Users : GetUserNotifications(u, "none")
  \/ \E u \in Users, fault \in {"none", "query"} : GetUserUnreadCount(u, fault)
  \/ \E u \in Users, c \in Condos, fault \in {"none", "primary"} :
       RemoveUserFromCondominium(u, c, fault)
  \/ \E u \in Users, n \in 1..(Len(notifications) + 1), fault \in {"none", "primary"} :
       MarkUserNotificationRead(u, n, fault)
  \/ \E aid \in AdminIds \cup {0}, n \in 1..(Len(notifications) + 1),
        fault \in {"none", "primary"} : MarkNotificationRead(aid, n, fault)
  \/ \E aid \in AdminIds \cup {0}, fault \in {"none", "primary"} : MarkAllRead(aid, fault)

NextRead == requests < MaxReadRequests /\ ReadRequest

SpecRead == InitRead /\ [][NextRead]_vars

(***************************************************************************)
(* Properties of the read state (SpecRead).                                *)
(***************************************************************************)
\* the rows of a link table are those of before, but that the rows chosen by
\* mine may have become read
OnlyRead(before, after, mine(_)) ==
  /\ Len(after) = Len(before)
  /\ \A k \in 1..Len(before) :
       \/ after[k] = before[k]
       \/ mine(before[k]) /\ after[k] = [before[k] EXCEPT !.read_status = 1]

\* C22: a mark-read request of admin a for notification n makes the link rows
\* (a, n) read and changes nothing else, mark-all-read makes the rows of a read
\* and changes no row of another admin, and a resident's mark-read changes only
\* that resident's rows for n; none of them touches the notifications table or
\* the other link table.  No request changes or removes a notifications row.
Thm_C22 ==
  [][/\ Len(notifications') >= Len(notifications)
     /\ \A i \in 1..Len(notifications) : notifications'[i] = notifications[i]
     /\ (requests' = requests + 1 /\ resp'.handler = "markRead") =>
          /\ notifications' = notifications /\ userLinks' = userLinks
          /\ LET mine(row) == row.admin_id = resp'.user /\ row.notification_id = resp'.nid
             IN /\ OnlyRead(adminLinks, adminLinks', mine)
                /\ resp'.primary =>
                     \A k \in 1..Len(adminLinks) :
                       mine(adminLinks[k]) => adminLinks'[k].read_status = 1
     /\ (requests' = requests + 1 /\ resp'.handler = "markAllRead") =>
          /\ notifications' = notifications /\ userLinks' = userLinks
          /\ LET mine(row) == row.admin_id = resp'.user
             IN /\ OnlyRead(adminLinks, adminLinks', mine)
                /\ resp'.primary =>
                     \A k \in 1..Len(adminLinks) :
                       mine(adminLinks[k]) => adminLinks'[k].read_status = 1
     /\ (requests' = requests + 1 /\ resp'.handler = "markUserRead") =>
          /\ notifications' = notifications /\ adminLinks' = adminLinks
          /\ LET mine(row) == row.user_id = resp'.user /\ row.notification_id = resp'.nid
             IN OnlyRead(userLinks, userLinks', mine)]_vars

\* an admin has marked one notification read while another admin and a
\* resident hold unread links for the same notification, and the admin holds
\* an unread link for another notification
Wit_C22 ==
  /\ resp.handler = "markRead" /\ resp.primary
  /\ \E k \in 1..Len(adminLinks) :
       /\ adminLinks[k].admin_id = resp.user /\ adminLinks[k].notification_id = resp.nid
       /\ adminLinks[k].read_status = 1
  /\ \E k \in 1..Len(adminLinks) :
       /\ adminLinks[k].admin_id # resp.user /\ adminLinks[k].notification_id = resp.nid
       /\ adminLinks[k].read_status = 0
  /\ \E k \in 1..Len(adminLinks) :
       /\ adminLinks[k].admin_id = resp.user /\ adminLinks[k].notification_id # resp.nid
       /\ adminLinks[k].read_status = 0
  /\ \E k \in 1..Len(userLinks) :
       userLinks[k].notification_id = resp.nid /\ userLinks[k].read_status = 0

\* C28 (as stated): when a resident's list request has answered, the unread
\* count of that resident equals the number of unread notifications in the
\* list, whatever creations, membership removals, list and mark-read requests
\* came before.
Cex_C28 ==
  (resp.handler = "userNotifications" /\ resp.status = 200 /\ resp.fault = "none") =>
    userUnreadCount(resp.user) =
      Cardinality({n \in resp.list :
                     ~\E k \in 1..Len(userLinks) :
                        /\ userLinks[k].user_id = resp.user
                        /\ userLinks[k].notification_id = n
                        /\ userLinks[k].read_status = 1})

(***************************************************************************)
(* SpecFanout: the admin link writers as the event loop runs them.  A      *)
(* writer issues one INSERT per target admin; the callbacks of the inserts *)
(* run one at a time, in any order, each with or without a store error,    *)
(* and the callback that finds every insert counted reports the result.    *)
(* Admins hold open event streams meanwhile.                               *)
(***************************************************************************)
MaxFanouts == 2

\* variant: the first callback already reports
AllCounted_first(counted, total) == counted >= 1

\* linksCreated + linkErrors === adminLinksToCreate.length of
\* linkNotificationToAdmins, completed === adminIds.length of
\* linkNotificationToAdminsByCondominiums
AllCounted(counted, total) == counted = total

\* for (const aid of ids) sendSseToAdmin(aid, 'notification_created', ...): the
\* event of notification n, no write failing
RECURSIVE PushToAdmins(_, _, _, _)
PushToAdmins(reg, strs, ids, n) ==
  IF ids = <<>> THEN strs
  ELSE PushToAdmins(reg,
                    sendSseToAdmin(reg, strs, Head(ids), n, [s \in Sessions |-> 0]).streams,
                    Tail(ids), n)

\* a handler has inserted notification n and calls linkNotificationToAdmins
\* (fn "toAdmins", for user u) or linkNotificationToAdminsByCondominiums (fn
\* "byCondominiums", for the condominium c, as POST /api/admin/ocorrencias
\* does): the admins are read and one INSERT is issued for each target
StartFanout(fn, u, c) ==
  LET n == NextNotificationId
      targets == IF fn = "toAdmins" THEN adminLinksToCreate(u)
                 ELSE adminIdsByCondominiums(<<c>>)
  IN /\ requests < MaxFanouts
     /\ Len(fanout.done) = Cardinality(fanout.targets)
     /\ requests' = requests + 1
     /\ notifications' =
          Append(notifications,
                 IF fn = "toAdmins" THEN NotifRow("profile_change", u, u, 0)
                 ELSE NotifRow("ocorrencia", 0, 0, c))
     /\ fanout' = [fn |-> fn, n |-> n, targets |-> targets, done |-> <<>>,
                   failed |-> {}, success |-> 0, errors |-> 0,
                   reports |-> IF targets = {} THEN <<[err |-> FALSE, count |-> 0]>>
                               ELSE <<>>,
                   pushed |-> {}]
     /\ UNCHANGED <<admins, users, memberships, adminLinks, userLinks, adminUnique,
                    ocorrencias, assembleias, amc, userMessages, adminMessages,
                    call, resp, pending, sseClients, streams, maintenanceUsers,
                    sequences, schema>>

\* the callback of the INSERT for admin a runs; ok is FALSE when the insert
\* met a store error.  The callback that finds all inserts counted reports,
\* and the event is pushed to every target: by linkNotificationToAdmins itself
\* when an insert succeeded, by the handler when the promise of
\* linkNotificationToAdminsByCondominiums resolves
CompleteInsert(a, ok) ==
  LET f == fanout
      success == f.success + (IF ok THEN 1 ELSE 0)
      errors == f.errors + (IF ok THEN 0 ELSE 1)
      last == AllCounted(success + errors, Cardinality(f.targets))
      pushes == last /\ (f.fn = "byCondominiums" \/ success > 0)
  IN /\ a \in f.targets /\ ~Includes(f.done, a)
     /\ adminLinks' = IF ok THEN InsertOrIgnoreAdminLink(adminLinks, a, f.n, adminUnique)
                      ELSE adminLinks
     /\ streams' = IF pushes
                   THEN PushToAdmins(sseClients, streams, SortedSeq(f.targets), f.n)
                   ELSE streams
     /\ fanout' = [f EXCEPT
                     !.done = Append(@, a),
                     !.failed = IF ok THEN @ ELSE @ \cup {a},
                     !.success = success,
                     !.errors = errors,
                     !.reports = IF last
                                 THEN Append(@, [err |-> f.fn = "toAdmins" /\ success = 0,
                                                 count |-> success])
                                 ELSE @,
                     !.pushed = IF pushes THEN f.targets ELSE @]
     /\ UNCHANGED <<admins, users, memberships, notifications, userLinks, adminUnique,
                    ocorrencias, assembleias, amc, userMessages, adminMessages,
                    requests, call, resp, pending, sseClients, maintenanceUsers,
                    sequences, schema>>

InitFanout ==
  /\ admins \in SpecAdminTables
  /\ users = Users
  /\ memberships \in SUBSET (Users \X Condos)
  /\ notifications = <<>>
  /\ adminLinks = <<>>
  /\ userLinks = <<>>
  /\ adminUnique \in BOOLEAN
  /\ ocorrencias = <<>>
  /\ assembleias = <<>>
  /\ amc = {}
  /\ userMessages = 0
  /\ adminMessages = 0
  /\ requests = 0
  /\ call = NoCall
  /\ resp = NoResp
  /\ pending = NoPending
  /\ sseClients = NoClients
  /\ streams = NoStreams
  /\ InitRest

NextFanout ==
  \/ \E s \in 1..NAdmins, a \in AdminIds : OpenStream(s, a)
  \/ \E fn \in {"toAdmins", "byCondominiums"}, u \in Users, c \in Condos :
       StartFanout(fn, u, c)
  \/ \E a \in AdminIds, ok \in BOOLEAN : CompleteInsert(a, ok)

SpecFanout == InitFanout /\ [][NextFanout]_vars

(***************************************************************************)
(* Properties of the link writers under way (SpecFanout).                  *)
(***************************************************************************)
\* C23 (as stated): an admin's stream is sent the event of notification n only
\* when admin_notifications holds the row of that admin for n, also when some
\* of the inserts of the writer failed.
Cex_C23 ==
  \A s \in Sessions :
    \A n \in 1..Len(notifications) :
      (streams[s].state = "open" /\ Includes(streams[s].written, <<n, "event">>)) =>
        HasAdminLink(adminLinks, streams[s].admin, n)

\* C24: a writer with at least one target reports once and not before the
\* callback of every insert has run, whatever their order and outcomes, and
\* the count it reports is the number of inserts that ended without error.
Thm_C24 ==
  fanout.targets # {} =>
    /\ Len(fanout.reports) <= 1
    /\ Len(fanout.reports) = 1 <=> Range(fanout.done) = fanout.targets
    /\ Len(fanout.done) <= Cardinality(fanout.targets)
    /\ Len(fanout.reports) = 1 =>
         fanout.reports[1].count = Cardinality(fanout.targets \ fanout.failed)

\* a writer with two targets has reported after the insert of the second admin
\* failed first and that of the first admin succeeded
Wit_C24 ==
  /\ fanout.targets = {1, 2} /\ fanout.done = <<2, 1>> /\ fanout.failed = {2}
  /\ fanout.reports = <<[err |-> FALSE, count |-> 1]>>

(***************************************************************************)
(* SpecDrift: the admin list and unread-count requests on a database that  *)
(* may lack the condominium_id column of notifications or the table        *)
(* admin_message_condominiums.  A request is run callback by callback:     *)
(* the query, the migration it may start, the retry.  The callback of an   *)
(* issued statement always runs.                                           *)
(***************************************************************************)
MaxDriftRequests == 2

\* variant: an error of the retry starts a migration as well
FirstAttempt_any(attempt) == TRUE

\* if (attempt === 1) of runNotificationQuery and runUnreadQuery
FirstAttempt(attempt) == attempt = 1

\* the errors the query of a request under the header hdr can meet: the
\* statement of a limited admin names n.condominium_id and
\* admin_message_condominiums, that of a full admin neither; "other" is any
\* other store error
QueryErrors(hdr) ==
  LET allowedCondos == getAdminAllowedCondos(hdr)
  IN {"other"}
     \cup (IF allowedCondos.t = "arr" /\ ~schema.condominium_id THEN {"column"} ELSE {})
     \cup (IF allowedCondos.t = "arr" /\ ~schema.admin_message_condominiums
           THEN {"table"} ELSE {})

\* a request under way: the attempt number, the statement whose callback is
\* awaited (phase), the queries and migrations run and the responses sent
Drift(kind, aid, hdr, attempt, phase, q, mig, sent, status, failed) ==
  [kind |-> kind, n |-> attempt, condos |-> <<>>, hdr |-> hdr, targets |-> <<>>,
   aid |-> aid, phase |-> phase, queries |-> q, migrations |-> mig,
   responses |-> sent, status |-> status, failed |-> failed]

DriftUnchanged ==
  UNCHANGED <<admins, users, memberships, notifications, adminLinks, userLinks,
              adminUnique, ocorrencias, assembleias, amc, userMessages,
              adminMessages, call, resp, sseClients, streams, maintenanceUsers,
              sequences, fanout>>

\* app.get('/api/notifications') (kind "list") and
\* app.get('/api/notifications/unread-count') (kind "unread") up to the first
\* run of the query
BeginQuery(kind, aid, hdr) ==
  LET allowedCondos == getAdminAllowedCondos(hdr)
      refused == aid = 0 /\ (kind = "unread" \/ ~Truthy(hdr))
      empty == allowedCondos.t = "arr" /\ Len(allowedCondos.a) = 0
  IN /\ requests < MaxDriftRequests
     /\ IF pending.kind = "none" THEN TRUE ELSE pending.phase = "done"
     /\ requests' = requests + 1
     /\ pending' = IF refused THEN Drift(kind, aid, hdr, 1, "done", 0, 0, 1, 400, FALSE)
                   ELSE IF empty THEN Drift(kind, aid, hdr, 1, "done", 0, 0, 1, 200, FALSE)
                   ELSE Drift(kind, aid, hdr, 1, "query", 0, 0, 0, 0, FALSE)
     /\ UNCHANGED schema
     /\ DriftUnchanged

\* the callback of db.all / db.get of runNotificationQuery and runUnreadQuery;
\* err is "none" or the error met
QueryCallback(err) ==
  LET p == pending
      q == [p EXCEPT !.queries = @ + 1]
  IN /\ p.kind \in {"list", "unread"} /\ p.phase = "query"
     /\ err \in {"none"} \cup QueryErrors(p.hdr)
     /\ pending' =
          IF err = "none"
          THEN [q EXCEPT !.phase = "done", !.responses = @ + 1, !.status = 200]
          ELSE IF FirstAttempt(p.n) /\ err = "column" THEN [q EXCEPT !.phase = "alter"]
          ELSE IF FirstAttempt(p.n) /\ err = "table" THEN [q EXCEPT !.phase = "create"]
          ELSE [q EXCEPT !.phase = "done", !.responses = @ + 1, !.status = 500,
                         !.failed = TRUE]
     /\ UNCHANGED <<requests, schema>>
     /\ DriftUnchanged

\* the callback of ALTER TABLE notifications ADD COLUMN condominium_id and of
\* CREATE TABLE IF NOT EXISTS admin_message_condominiums; ok is FALSE when the
\* statement met a store error
MigrationCallback(ok) ==
  LET p == pending
      m == [p EXCEPT !.migrations = @ + 1]
  IN /\ p.kind \in {"list", "unread"} /\ p.phase \in {"alter", "create"}
     /\ schema' = IF ~ok THEN schema
                  ELSE IF p.phase = "alter" THEN [schema EXCEPT !.condominium_id = TRUE]
                  ELSE [schema EXCEPT !.admin_message_condominiums = TRUE]
     /\ pending' =
          IF ok THEN [m EXCEPT !.phase = "query", !.n = @ + 1]
          ELSE [m EXCEPT !.phase = "done", !.responses = @ + 1, !.status = 500,
                         !.failed = TRUE]
     /\ UNCHANGED requests
     /\ DriftUnchanged

InitDrift ==
  /\ admins \in SpecAdminTables
  /\ users = Users
  /\ memberships = {}
  /\ notifications = <<>>
  /\ adminLinks = <<>>
  /\ userLinks = <<>>
  /\ adminUnique = TRUE
  /\ ocorrencias = <<>>
  /\ assembleias = <<>>
  /\ amc = {}
  /\ userMessages = 0
  /\ adminMessages = 0
  /\ requests = 0
  /\ call = NoCall
  /\ resp = NoResp
  /\ pending = NoPending
  /\ sseClients = NoClients
  /\ streams = NoStreams
  /\ maintenanceUsers = DefaultMaintenance
  /\ sequences = [admins |-> NAdmins, maintenance_users |-> 3]
  /\ schema \in [condominium_id : BOOLEAN, admin_message_condominiums : BOOLEAN]
  /\ fanout = NoFanout

DriftCallback ==
  \/ \E err \in {"none", "other", "column", "table"} : QueryCallback(err)
  \/ \E ok \in BOOLEAN : MigrationCallback(ok)

NextDrift ==
  \/ \E kind \in {"list", "unread"}, aid \in {0, 2}, hdr \in AdminHeaders :
       BeginQuery(kind, aid, hdr)
  \/ DriftCallback

SpecDrift == InitDrift /\ [][NextDrift]_vars /\ WF_vars(DriftCallback)

(***************************************************************************)
(* Properties of the self-healing queries (SpecDrift).                     *)
(***************************************************************************)
DriftUnderWay == pending.kind \in {"list", "unread"}
DriftWaiting == IF DriftUnderWay THEN pending.phase # "done" ELSE FALSE
DriftAnswered == IF DriftUnderWay THEN pending.phase = "done" ELSE FALSE

\* C25: a list or unread-count request runs its query at most twice and at
\* most one migration; it answers once, when nothing more of it is to run, and
\* with a store error when the retry or the migration failed; and every
\* request under way comes to its answer.
Thm_C25 ==
  /\ [](DriftUnderWay =>
          /\ pending.queries <= 2 /\ pending.migrations <= 1
          /\ pending.queries <= pending.migrations + 1
          /\ pending.responses = (IF pending.phase = "done" THEN 1 ELSE 0)
          /\ (pending.phase = "done" /\ pending.failed) => pending.status = 500
          /\ (pending.phase = "done" /\ pending.status = 200 /\ pending.queries > 0) =>
               ~pending.failed)
  /\ DriftWaiting ~> DriftAnswered

\* a request has answered with a store error after its migration succeeded
\* and its retry failed on the table that is still missing
Wit_C25 ==
  /\ DriftUnderWay /\ pending.phase = "done" /\ pending.status = 500
  /\ pending.queries = 2 /\ pending.migrations = 1
  /\ schema.condominium_id /\ ~schema.admin_message_condominiums

(***************************************************************************)
(* Write-time targeting against read-time filtering (Spec).                *)
(***************************************************************************)
\* C27 (as stated): every link row a limited admin holds is selected by the
\* admin's list and unread-count queries, asked with the descriptor of the
\* admin's row, which no request of Spec changes.
Cex_C27 ==
  \A a \in DOMAIN admins :
    admins[a].scope = "limited" =>
      \A k \in 1..Len(adminLinks) :
        adminLinks[k].admin_id = a => k \in SelectedAdminLinks(a, HeaderOf(admins[a]))


(***************************************************************************)
(* SpecMaint: occurrences and the maintenance users they are assigned to.  *)
(* The handlers that check a maintenance user before they write run in two *)
(* steps, the existence check and the write the await resumes with, so     *)
(* that another request's statements can run between them; so does the     *)
(* deletion of a maintenance user, a DELETE followed by an UPDATE.         *)
(* pending holds the write in flight and the id whose references are still *)
(* to be cleared.                                                          *)
(***************************************************************************)
MaxMaintRequests == 3

\* no occurrence write is in flight
NoWrite ==
  [op |-> "none", id |-> 0, c |-> 0, status |-> "", report |-> FALSE, assigned |-> 0]
NoMaint == [kind |-> "maint", write |-> NoWrite, clearing |-> 0]
InFlight == IF pending.kind = "maint" THEN pending ELSE NoMaint

\* what a request gives as assigned_to_maintenance: 0 when the body has no
\* such field (or null, or ''), -1 for a value parseInt makes NaN or <= 0
AssignmentInputs == {-1, 0, 1, 4}
\* the statuses a maintenance update request carries in its body
StatusInputs == {"in_progress", "pending_verification", "completed"}

\* SELECT id FROM maintenance_users WHERE id = ?
MaintenanceUserExists(candidate) == candidate \in DOMAIN maintenanceUsers

MaintUnchanged ==
  UNCHANGED <<admins, users, memberships, notifications, adminLinks, userLinks,
              adminUnique, ocorrencias, assembleias, amc, userMessages,
              adminMessages, call, sseClients, streams, rest>>

\* app.post('/api/admin/ocorrencias') up to the await of its existence check
BeginCreateOcorrencia(c, raw) ==
  LET h == "adminOcorrencia"
  IN /\ InFlight.write.op = "none"
     /\ IF raw < 0 \/ (raw > 0 /\ ~MaintenanceUserExists(raw))
        THEN /\ requests' = requests + 1
             /\ AnswerThen(Resp(h, 400, FALSE, 0, 0, 0, {c}, "none", {}), pending)
        ELSE /\ pending' = [InFlight EXCEPT
                              !.write = [NoWrite EXCEPT !.op = "create", !.c = c,
                                                        !.assigned = raw]]
             /\ UNCHANGED <<requests, resp>>
             /\ MaintUnchanged

\* app.put('/api/maintenance/ocorrencias/:id') up to the await of its
\* existence check: a candidate that is NaN or has no row leaves
\* assigned_to_maintenance null, and the request goes on
BeginMaintenanceUpdate(id, status, report, raw) ==
  /\ InFlight.write.op = "none"
  /\ pending' = [InFlight EXCEPT
                   !.write = [op |-> "update", id |-> id, c |-> 0, status |-> status,
                              report |-> report,
                              assigned |-> IF raw > 0 /\ MaintenanceUserExists(raw)
                                           THEN raw ELSE 0]]
  /\ UNCHANGED <<requests, resp>>
  /\ MaintUnchanged

\* the rest of the handler whose existence check has answered
ResumeWrite(fault) ==
  LET w == InFlight.write
      left == [InFlight EXCEPT !.write = NoWrite]
  IN /\ w.op # "none"
     /\ IF w.op = "create"
        THEN AdminCreateOcorrenciaThen(w.c, w.assigned, fault, left)
        ELSE MaintenanceUpdateOcorrenciaThen(w.id, w.status, w.report, w.assigned,
                                             fault, left)

\* app.delete('/api/admin/maintenance-users/:id') up to its DELETE
DeleteMaintenanceUser(id, isMain, fault) ==
  LET h == "deleteMaintenance"
      r == Resp(h, 200, FALSE, 0, 0, id, {}, fault, {})
  IN /\ InFlight.clearing = 0
     /\ fault \in {"none", "primary"}
     /\ IF ~isMain \/ ~MaintenanceUserExists(id) \/ fault = "primary"
        THEN /\ requests' = requests + 1
             /\ AnswerThen([r EXCEPT !.status = IF ~isMain THEN 403
                                                ELSE IF ~MaintenanceUserExists(id) THEN 404
                                                ELSE 500,
                                     !.fault = IF isMain /\ MaintenanceUserExists(id)
                                               THEN fault ELSE "none"], pending)
        ELSE /\ maintenanceUsers' =
                  [m \in DOMAIN maintenanceUsers \ {id} |-> maintenanceUsers[m]]
             /\ pending' = [InFlight EXCEPT !.clearing = id]
             /\ UNCHANGED <<admins, users, memberships, notifications, adminLinks,
                            userLinks, adminUnique, ocorrencias, assembleias, amc,
                            userMessages, adminMessages, requests, call, resp,
                            sseClients, streams, sequences, schema, fanout>>

\* UPDATE ocorrencias SET assigned_to_maintenance = NULL WHERE
\* assigned_to_maintenance IN ids
ClearAssignments(rows, ids) ==
  [i \in DOMAIN rows |->
     IF rows[i].assigned_to_maintenance \in ids
     THEN [rows[i] EXCEPT !.assigned_to_maintenance = 0] ELSE rows[i]]

\* the UPDATE of app.delete('/api/admin/maintenance-users/:id') and its answer
ClearDeletedAssignments(fault) ==
  LET h == "deleteMaintenance"
      id == InFlight.clearing
      left == [InFlight EXCEPT !.clearing = 0]
  IN /\ id # 0
     /\ fault \in {"none", "primary"}
     /\ requests' = requests + 1
     /\ IF fault = "primary"
        THEN AnswerThen(Resp(h, 500, FALSE, 0, 0, id, {}, fault, {}), left)
        ELSE /\ ocorrencias' = ClearAssignments(ocorrencias, {id})
             /\ pending' = left
             /\ resp' = Resp(h, 200, TRUE, 0, 0, id, {}, fault, {})
             /\ UNCHANGED <<admins, users, memberships, notifications, adminLinks,
                            userLinks, adminUnique, assembleias, amc, userMessages,
                            adminMessages, call, sseClients, streams, rest>>

\* the ids the occurrences are assigned to that have no maintenance_users row
OrphanIds ==
  {ocorrencias[i].assigned_to_maintenance : i \in DOMAIN ocorrencias}
    \ (DOMAIN maintenanceUsers \cup {0})

\* app.post('/api/admin/fix-orphaned-maintenance-assignments')
FixOrphanedAssignments(fault) ==
  LET h == "fixOrphans"
  IN /\ requests' = requests + 1
     /\ fault \in {"none", "primary"}
     /\ IF fault = "primary" THEN Answer(Resp(h, 500, FALSE, 0, 0, 0, {}, fault, {}))
        ELSE IF OrphanIds = {} THEN Answer(Resp(h, 200, FALSE, 0, 0, 0, {}, fault, {}))
        ELSE /\ ocorrencias' = ClearAssignments(ocorrencias, OrphanIds)
             /\ resp' = Resp(h, 200, TRUE, 0, 0, 0, {}, fault, {})
             /\ UNCHANGED <<admins, users, memberships, notifications, adminLinks,
                            userLinks, adminUnique, assembleias, amc, userMessages,
                            adminMessages, call, pending, sseClients, streams, rest>>

InitMaint ==
  /\ admins \in SpecAdminTables
  /\ users = Users
  /\ memberships = {}
  /\ notifications = <<>>
  /\ adminLinks = <<>>
  /\ userLinks = <<>>
  /\ adminUnique = TRUE
  /\ ocorrencias = <<>>
  /\ assembleias = <<>>
  /\ amc = {}
  /\ userMessages = 0
  /\ adminMessages = 0
  /\ requests = 0
  /\ call = NoCall
  /\ resp = NoResp
  /\ pending = NoPending
  /\ sseClients = NoClients
  /\ streams = NoStreams
  /\ InitRest

MaintFaults == {"none", "primary"}

MaintRequest ==
  \/ \E c \in Condos, raw \in AssignmentInputs : BeginCreateOcorrencia(c, raw)
  \/ \E id \in 1..(Len(ocorrencias) + 1), status \in StatusInputs, report \in BOOLEAN,
        raw \in AssignmentInputs : BeginMaintenanceUpdate(id, status, report, raw)
  \/ \E id \in {1, 4}, isMain \in BOOLEAN, fault \in MaintFaults :
       DeleteMaintenanceUser(id, isMain, fault)
  \/ \E fault \in MaintFaults : FixOrphanedAssignments(fault)
  \/ \E id \in 1..(Len(ocorrencias) + 1), approved \in BOOLEAN, fault \in MaintFaults :
       VerifyOcorrencia(id, approved, fault)
  \/ \E id \in 1..(Len(ocorrencias) + 1), status \in {"", "pending"},
        fault \in MaintFaults : CompleteOcorrencia(id, status, fault)
  \/ \E fault \in MaintFaults : Restart(fault)

\* a request begins while fewer than MaxMaintRequests have been answered and
\* none is waiting; the statements in flight always run
NextMaint ==
  \/ requests + (IF InFlight.write.op = "none" THEN 0 ELSE 1)
              + (IF InFlight.clearing = 0 THEN 0 ELSE 1) < MaxMaintRequests
       /\ MaintRequest
  \/ \E fault \in MaintFaults : ResumeWrite(fault)
  \/ \E fault \in MaintFaults : ClearDeletedAssignments(fault)

SpecMaint == InitMaint /\ [][NextMaint]_vars

\* C29: in every reachable state each occurrence whose assigned_to_maintenance
\* is not null refers to a row of maintenance_users, whatever the interleaving
\* of creations, assignments and deletions, and across restarts
Cex_C29 ==
  \A i \in DOMAIN ocorrencias :
    ocorrencias[i].assigned_to_maintenance # 0 =>
      ocorrencias[i].assigned_to_maintenance \in DOMAIN maintenanceUsers

\* C30: an occurrence with status 'completed' has a completed_at, it got that
\* status by a verify or complete request, and a maintenance update request
\* never leaves an occurrence 'completed'
Cex_C30 ==
  [][\A i \in DOMAIN ocorrencias' :
       ocorrencias'[i].status = "completed" =>
         /\ ocorrencias'[i].completed_at # 0
         /\ (i \in DOMAIN ocorrencias /\ ocorrencias[i].status = "completed")
              \/ resp'.handler \in {"verify", "complete"}]_vars

====
